---- MODULE Spec2Model ----
(***************************************************************************)
(* The polyphonic event scheduler of src/audio/event_scheduler.py: the    *)
(* event bins filled by add_event, the voice pool, and the block-wise      *)
(* render generator, stepped one bin / one event at a time.                *)
(*                                                                         *)
(* Times are exact rationals: an event time is given as t2, the value of   *)
(* time * sample_rate in units of 1/TimeDen sample.  Frames are abstracted *)
(* to their number and to whether a block holds a frame above the silence  *)
(* threshold (the generator callback is external: a running voice may      *)
(* produce loud or silent frames, no running voice gives exact zeros).     *)
(***************************************************************************)
EXTENDS Integers, Sequences, FiniteSets, TLC

\* ---------------------------------------------------------------- bounds
\* Spec: one voice, few events on a fine time grid, one negative time included
MaxCalls == 3       \* add_event calls before render
MaxTime == 2        \* largest nominal event time, in samples
TimeDen == 2        \* time resolution: 1/TimeDen of a sample
\* SpecPool: add_event and add_note calls at whole-sample times, a larger pool
MaxGridCalls == 3   \* add_event and add_note calls before render
MaxGridTime == 1    \* largest nominal event time, in samples
MaxVoices == 2      \* max_voices (polyphony) of the pool
\* SpecAdsr: the envelope on its own
MaxUnitCalls == 8   \* calls made on the envelope

\* event times in units of 1/TimeDen sample; the one negative time is off the
\* sample grid (its NOTE_ON floors to a negative index, its NOTE_OFF ceils to 0)
NegTimes2 == {0 - 1}
\* every time of the grid within the first sample, whole samples after it
FineTimes2 == 0..TimeDen
WholeTimes2 == {t * TimeDen : t \in 1..MaxTime}
Times2 == NegTimes2 \cup FineTimes2 \cup WholeTimes2
GridTimes2 == {t * TimeDen : t \in 0..MaxGridTime}
GridDurations2 == {TimeDen}
\* SpecData: the first two whole samples
DataTimes2 == {0, TimeDen}
StartTimes2 == {0}
\* max_voices: one voice in Spec, MaxVoices in SpecPool; SpecAnyPool adds the
\* empty pool, which the constructor accepts
OneVoice == {1}
AnyPool == {0, 1}
NoteIds == {1, 2}
\* the data of an event besides its note id: one value where a note id fixes
\* its data, two where the caller gives one note id different data
OneTag == {0}
DataTags == {1, 2}
TickSizes == {1, 2}
\* SpecCtor: the tick_size arguments tried on the constructor
CtorTickSizes == {0, 1, 2, 3}
BufferSizes == {2}
TailSamples == {0, 3}
\* (attack, decay, release) lengths in samples of the ADSR prototype
AdsrLengths == {<<1, 1, 2>>}
\* SpecRelease: release lengths 0, 1 and 2
ReleaseLengths == {<<1, 1, 0>>, <<1, 1, 1>>, <<1, 1, 2>>}
\* SpecAdsr: the envelope on its own, segments of length 0 included
UnitAdsrLengths == {<<1, 1, 2>>, <<2, 0, 1>>, <<0, 1, 0>>, <<2, 2, 1>>}
\* SpecAdsr: num_samples of a generate call
UnitSamples == {1, 2}
\* SpecMix: volumes, frames and buffers of the mixed tracks
MaxTracks == 2
MixVolumes == {0, 1, 2}
MixFrames == {<<1, 0>>, <<-1, 2>>}
MixBuffers ==
  {<<>>} \cup {<<f>> : f \in MixFrames} \cup {<<f, h>> : f, h \in MixFrames}
\* SpecOrder: add_event calls of a timeline and their times
MaxOrderCalls == 3
\* SpecFloat: time + duration of add_note is a floating-point sum; the width
\* of the significand is scaled down so that sums of whole-sample times round
MantissaBits == 3   \* bits of the significand
MaxFloatTime == 12  \* largest time of an add_note call, in samples
MaxFloatCalls == 1  \* add_note calls
FloatDurations == 1..3
OrderTimes2 == {0, TimeDen}
\* SpecSynth: num_samples of a process call
SynthSamples == {0, 1, 2}

EventKinds == {"NOTE_ON", "NOTE_OFF"}
\* the value of unit in the specifications of the scheduler
NoUnit == [kind |-> "none"]
RetriggerModes == {"ALLOW_TAILS", "CUT_TAILS", "ATTACK_FROM_CURRENT_LEVEL"}

VARIABLES
  \* scheduler configuration (EventScheduler.__init__)
  max_voices, tick_size, buffer_size, retrigger_mode, is_using_adsr, adsr_lengths,
  \* a component exercised on its own (SpecAdsr); no scheduler step touches it
  unit,
  \* scheduler state
  voices, event_bins, num_calls,
  \* the latest API call and its arguments
  call,
  \* render: generator position and locals
  pc, remaining_bins, last_note_off_sample_index, last_event_sample_index,
  max_samples_after_last_note_off, num_processed_blocks, cursor,
  block_event_bins, block_frames, segment_start, bin_index, bin_events,
  voice, should_stop,
  \* history: frames yielded so far, events interpreted so far, and the slot
  \* that played each note id's latest NOTE_ON
  total_frames, interpreted, last_voice

config == <<max_voices, tick_size, buffer_size, retrigger_mode, is_using_adsr, adsr_lengths, unit>>
render_locals == <<remaining_bins, last_note_off_sample_index, last_event_sample_index,
                   max_samples_after_last_note_off, num_processed_blocks, cursor,
                   block_event_bins, block_frames, segment_start, bin_index, bin_events,
                   voice, should_stop>>
history == <<total_frames, interpreted, last_voice>>
vars == <<config, voices, event_bins, num_calls, call, pc, render_locals, history>>

\* ---------------------------------------------------------------- helpers
Max(a, b) == IF a >= b THEN a ELSE b

SetMax(S) == CHOOSE x \in S : \A y \in S : y <= x

SetMin(S) == CHOOSE x \in S : \A y \in S : x <= y

\* math.floor(num / den) and math.ceil(num / den), den > 0
Floor(num, den) == num \div den

Ceil(num, den) == 0 - ((0 - num) \div den)

\* ---------------------------------------------------------------- ADSR
\* The envelope value is kept as the exact expression the code evaluates: the
\* sequence of _exp_step evaluations since the value was last forced to 0.0,
\* each one target + (start - target) * exp(-i / tau) with tau fixed by n and
\* start the value before it.  <<>> is 0.0.
ZeroValue == <<>>

EnterSegmentKeepStart(v, stage, target, n) ==
  [v EXCEPT !.stage = stage, !.i = 0, !.seg = n, !.target = target]

\* ExpADSR._enter_segment: stage, _i = 0, _n = segment length, _start = value
EnterSegment(v, stage, target, n) ==
  [v EXCEPT !.stage = stage, !.i = 0, !.seg = n, !.start = v.value, !.target = target]

\* ExpADSR.reset
AdsrReset(v) ==
  [v EXCEPT !.stage = "IDLE", !.value = ZeroValue, !.i = 0, !.seg = 0,
            !.start = ZeroValue, !.target = "ZERO"]

\* ExpADSR._enter_attack, _enter_decay, _enter_sustain, _enter_release
EnterAttack(v) == EnterSegment(v, "ATTACK", "ONE", adsr_lengths[1])

EnterDecay(v) == EnterSegment(v, "DECAY", "SUSTAIN_LEVEL", adsr_lengths[2])

EnterSustain(v) == [v EXCEPT !.stage = "SUSTAIN"]

EnterReleaseOneLonger(v) == EnterSegment(v, "RELEASE", "ZERO", adsr_lengths[3] + 1)

EnterRelease(v) == EnterSegment(v, "RELEASE", "ZERO", adsr_lengths[3])

\* ExpADSR.note_on
AdsrNoteOn(v) == EnterAttack(v)

AdsrNoteOffInAnyStage(v) == EnterRelease(v)

\* ExpADSR.note_off
AdsrNoteOff(v) == IF v.stage # "IDLE" THEN EnterRelease(v) ELSE v

ExpStepSnap(v) ==
  IF v.seg <= 0
  THEN [v EXCEPT !.i = 1,
                 !.value = Append(v.start, [target |-> v.target, i |-> 1, n |-> 0])]
  ELSE [v EXCEPT !.value = Append(v.start, [target |-> v.target, i |-> v.i, n |-> v.seg]),
                 !.i = v.i + 1]

\* ExpADSR._exp_step
ExpStep(v) ==
  IF v.seg <= 0 THEN [v EXCEPT !.i = 1]
  ELSE [v EXCEPT !.value = Append(v.start, [target |-> v.target, i |-> v.i, n |-> v.seg]),
                 !.i = v.i + 1]

\* a handler registered on an envelope: make_self_not_running of the voice that
\* owns it, or a handler that counts its calls in its slot of v.fired
MakeSelfNotRunning == [name |-> "make_self_not_running", slot |-> 0]

CountCalls(slot) == [name |-> "count_calls", slot |-> slot]

CallNoHandler(v, h) == v

CallHandler(v, h) ==
  IF h.name = "make_self_not_running" THEN [v EXCEPT !.running = FALSE]
  ELSE [v EXCEPT !.fired[h.slot] = @ + 1]

FireFirstHandler(v, hs) == IF hs = <<>> THEN v ELSE CallHandler(v, Head(hs))

\* for handler in self.enter_idle_handlers: handler()
RECURSIVE FireIdleHandlers(_, _)
FireIdleHandlers(v, hs) ==
  IF hs = <<>> THEN v ELSE FireIdleHandlers(CallHandler(v, Head(hs)), Tail(hs))

GenerateStepLate(v) ==
  IF v.stage = "IDLE" THEN [v EXCEPT !.value = ZeroValue]
  ELSE IF v.stage = "SUSTAIN" THEN v
  ELSE LET s == ExpStep(v)
       IN IF s.i > s.seg
          THEN CASE s.stage = "ATTACK" -> EnterDecay(s)
                 [] s.stage = "DECAY" -> EnterSustain(s)
                 [] s.stage = "RELEASE" ->
                      FireIdleHandlers([s EXCEPT !.stage = "IDLE"], s.handlers)
          ELSE s

\* one iteration of the loop of ExpADSR.generate: _exp_step, then the stage
\* transition; RELEASE -> IDLE calls the registered handlers
GenerateStep(v) ==
  IF v.stage = "IDLE" THEN [v EXCEPT !.value = ZeroValue]
  ELSE IF v.stage = "SUSTAIN" THEN v
  ELSE LET s == ExpStep(v)
       IN IF s.i >= s.seg
          THEN CASE s.stage = "ATTACK" -> EnterDecay(s)
                 [] s.stage = "DECAY" -> EnterSustain(s)
                 [] s.stage = "RELEASE" ->
                      FireIdleHandlers([s EXCEPT !.stage = "IDLE"], s.handlers)
          ELSE s

\* out[k] = self.value (line 92): g counts the values the envelope has emitted
\* since the owner last reset it
Emit(v) == [v EXCEPT !.g = @ + 1]

RECURSIVE Generate(_, _)
Generate(v, num_samples) ==
  IF num_samples <= 0 THEN v ELSE Generate(Emit(GenerateStep(v)), num_samples - 1)

\* ---------------------------------------------------------------- Voice
\* state is the generator state (the data of the last note-on, 0 - 1: the
\* prototype's initial state), n the generator's sample counter
NewVoice == [running |-> FALSE, note_id |-> 0, last_on |-> 0, last_off |-> 0,
             state |-> 0 - 1, n |-> 0, g |-> 0,
             stage |-> "IDLE", value |-> ZeroValue, i |-> 0, seg |-> 0,
             start |-> ZeroValue, target |-> "ZERO",
             handlers |-> IF is_using_adsr THEN <<MakeSelfNotRunning>> ELSE <<>>]

\* Voice.note_on
VoiceNoteOnKeepState(v, note_id, data, index, reset_adsr, reset_synth, trigger_adsr) ==
  LET a1 == IF is_using_adsr /\ reset_adsr THEN [AdsrReset(v) EXCEPT !.g = 0] ELSE v
      a2 == IF is_using_adsr /\ trigger_adsr THEN AdsrNoteOn(a1) ELSE a1
  IN [a2 EXCEPT !.n = IF reset_synth THEN 0 ELSE @,
                !.note_id = note_id,
                !.running = TRUE,
                !.last_on = index]

VoiceNoteOn(v, note_id, data, index, reset_adsr, reset_synth, trigger_adsr) ==
  LET a1 == IF is_using_adsr /\ reset_adsr THEN [AdsrReset(v) EXCEPT !.g = 0] ELSE v
      a2 == IF is_using_adsr /\ trigger_adsr THEN AdsrNoteOn(a1) ELSE a1
  IN [a2 EXCEPT !.state = data,
                !.n = IF reset_synth THEN 0 ELSE @,
                !.note_id = note_id,
                !.running = TRUE,
                !.last_on = index]

VoiceNoteOffAtOnce(v, index) ==
  LET a == IF is_using_adsr THEN AdsrNoteOff(v) ELSE v
  IN [a EXCEPT !.running = FALSE, !.last_off = index]

VoiceNoteOffStampOnly(v, index) == [v EXCEPT !.last_off = index]

\* Voice.note_off
VoiceNoteOff(v, index) ==
  LET a == IF is_using_adsr THEN AdsrNoteOff(v) ELSE [v EXCEPT !.running = FALSE]
  IN [a EXCEPT !.last_off = index]

\* Voice.process: the generator counter advances by num_samples, the envelope
\* generates num_samples values
VoiceProcessLateEnvelope(v, num_samples) ==
  LET s == [v EXCEPT !.n = @ + num_samples]
  IN IF is_using_adsr THEN Generate(s, num_samples - 1) ELSE s

VoiceProcess(v, num_samples) ==
  LET s == [v EXCEPT !.n = @ + num_samples]
  IN IF is_using_adsr THEN Generate(s, num_samples) ELSE s

\* ---------------------------------------------------------------- EventBin
\* EventBin.add_event: a bin is the dict note_id -> list of events, in
\* insertion order of the note ids; an event is its kind and its data
BinHas(bin, note_id) == \E k \in 1..Len(bin) : bin[k].note_id = note_id

BinAddEvent(bin, kind, note_id, data) ==
  IF BinHas(bin, note_id)
  THEN [k \in 1..Len(bin) |->
          IF bin[k].note_id = note_id
          THEN [bin[k] EXCEPT !.events = Append(@, [kind |-> kind, data |-> data])]
          ELSE bin[k]]
  ELSE Append(bin, [note_id |-> note_id, events |-> <<[kind |-> kind, data |-> data]>>])

HasKind(events, kind) == \E k \in 1..Len(events) : events[k].kind = kind

LastOfKind(events, kind) ==
  events[SetMax({k \in 1..Len(events) : events[k].kind = kind})]

\* tuple(filter(lambda evt: evt.kind == kind, events))[0]
FirstOfKind(events, kind) ==
  events[SetMin({k \in 1..Len(events) : events[k].kind = kind})]

SimplifyOneDuplicate(events) == IF Len(events) > 1 THEN Tail(events) ELSE events

\* EventBin.get_simplified: per note id the first NOTE_OFF, then the first NOTE_ON
SimplifyEvents(events) ==
  (IF HasKind(events, "NOTE_OFF") THEN <<FirstOfKind(events, "NOTE_OFF")>> ELSE <<>>)
  \o (IF HasKind(events, "NOTE_ON") THEN <<FirstOfKind(events, "NOTE_ON")>> ELSE <<>>)

GetSimplified(bin) ==
  [k \in 1..Len(bin) |-> [note_id |-> bin[k].note_id, events |-> SimplifyEvents(bin[k].events)]]

\* the order in which render walks a bin: note ids in dict order, each id's
\* events in list order
RECURSIVE BinEventList(_)
BinEventList(bin) ==
  IF bin = <<>> THEN <<>>
  ELSE [k \in 1..Len(Head(bin).events) |->
          [kind |-> Head(bin).events[k].kind, note_id |-> Head(bin).note_id,
           data |-> Head(bin).events[k].data]]
       \o BinEventList(Tail(bin))

\* ---------------------------------------------------------------- add_event
\* EventScheduler.add_event: floor for NOTE_ON, ceil for NOTE_OFF, on the tick grid
QuantizeFloorBoth(kind, t2) == Floor(t2, TimeDen * tick_size) * tick_size

QuantizeToSample(kind, t2) ==
  IF kind = "NOTE_ON" THEN Floor(t2, TimeDen) ELSE Ceil(t2, TimeDen)

QuantizeCeilBoth(kind, t2) == Ceil(t2, TimeDen * tick_size) * tick_size

QuantizedSampleIndex(kind, t2) ==
  IF kind = "NOTE_ON"
  THEN Floor(t2, TimeDen * tick_size) * tick_size
  ELSE Ceil(t2, TimeDen * tick_size) * tick_size

BinAtShared(bins, index) ==
  IF index \in DOMAIN bins THEN bins[index]
  ELSE IF DOMAIN bins = {} THEN <<>> ELSE bins[SetMin(DOMAIN bins)]

BinAt(bins, index) == IF index \in DOMAIN bins THEN bins[index] ELSE <<>>

AddToBins(bins, index, kind, note_id, data) ==
  [x \in (DOMAIN bins) \cup {index} |->
     IF x = index THEN BinAddEvent(BinAt(bins, index), kind, note_id, data) ELSE bins[x]]

NoCall == [op |-> "none", time2 |-> 0, duration2 |-> 0, kind |-> "none",
           note_id |-> 0, data |-> 0, index |-> 0, off_index |-> 0]

\* ---------------------------------------------------------------- voice pool
Running(vs) == {k \in 1..Len(vs) : vs[k].running}

\* EventScheduler._get_free_voices
GetFreeVoices(vs) == {k \in 1..Len(vs) : ~vs[k].running}

\* EventScheduler._get_retrigger_voice: the first running voice with the note id (0: None)
AnyRunningVoice(vs, note_id) ==
  IF Running(vs) = {} THEN 0 ELSE SetMin(Running(vs))

GetRetriggerVoice(vs, note_id) ==
  LET match == {k \in Running(vs) : vs[k].note_id = note_id}
  IN IF match = {} THEN 0 ELSE SetMin(match)

\* sorted(..., key=...)[0]: Python's sort is stable, ties go to the lower pool index
OldestByNoteOn(vs, S) ==
  CHOOSE k \in S : \A j \in S :
    vs[k].last_on < vs[j].last_on \/ (vs[k].last_on = vs[j].last_on /\ k <= j)

OldestByNoteOff(vs, S) ==
  CHOOSE k \in S : \A j \in S :
    vs[k].last_off < vs[j].last_off \/ (vs[k].last_off = vs[j].last_off /\ k <= j)

\* the steal of _get_or_steal_voice (lines 334-357); 0: voices_sorted[0] raises
\* IndexError on an empty pool
StealOldestOn(vs) ==
  IF Len(vs) = 0 THEN 0 ELSE OldestByNoteOn(vs, 1..Len(vs))

StealVoice(vs) ==
  LET release_voices == {k \in 1..Len(vs) : vs[k].stage = "RELEASE"}
  IN IF Len(vs) = 0 THEN 0
     ELSE IF ~is_using_adsr THEN OldestByNoteOn(vs, 1..Len(vs))
     ELSE IF release_voices # {} THEN OldestByNoteOff(vs, release_voices)
     ELSE OldestByNoteOn(vs, 1..Len(vs))

\* EventScheduler._get_or_steal_voice: the first free voice, else a steal
GetOrStealLastFree(vs) ==
  IF GetFreeVoices(vs) # {} THEN SetMax(GetFreeVoices(vs)) ELSE StealVoice(vs)

GetOrStealVoice(vs) ==
  IF GetFreeVoices(vs) # {} THEN SetMin(GetFreeVoices(vs)) ELSE StealVoice(vs)

\* ---------------------------------------------------------------- render helpers
\* render_segment: every running voice processes num_samples frames
RenderSegment(vs, num_samples) ==
  IF num_samples <= 0 THEN vs
  ELSE [k \in 1..Len(vs) |-> IF vs[k].running THEN VoiceProcess(vs[k], num_samples) ELSE vs[k]]

\* whether a rendered segment may hold a frame above silence_amplitude: only
\* frames mixed from at least one running voice can
LoudChoices(vs, num_samples) ==
  IF num_samples > 0 /\ Running(vs) # {} THEN BOOLEAN ELSE {FALSE}

\* block_frames.extend(render_segment(n))
ExtendFrames(frames, num_samples, loud) ==
  IF num_samples <= 0 THEN frames
  ELSE [len |-> frames.len + num_samples, loud |-> frames.loud \/ loud]

\* block_frames = None / block_frames = []
NoFrames == [len |-> 0 - 1, loud |-> FALSE]

EmptyFrames == [len |-> 0, loud |-> FALSE]

RECURSIVE SortedBinsDescending(_)
SortedBinsDescending(bins) ==
  IF DOMAIN bins = {} THEN <<>>
  ELSE LET m == SetMax(DOMAIN bins)
       IN <<[index |-> m, bin |-> bins[m]]>>
          \o SortedBinsDescending([x \in (DOMAIN bins) \ {m} |-> bins[x]])

\* dict(sorted(remaining_bins.items())): the simplified bins in ascending key order
RECURSIVE SortedBins(_)
SortedBins(bins) ==
  IF DOMAIN bins = {} THEN <<>>
  ELSE LET m == SetMin(DOMAIN bins)
       IN <<[index |-> m, bin |-> bins[m]]>>
          \o SortedBins([x \in (DOMAIN bins) \ {m} |-> bins[x]])

AllBinIndices(sorted) == {sorted[k].index : k \in 1..Len(sorted)}

\* the keys of the bins that hold a NOTE_OFF (lines 412-420)
NoteOffIndices(sorted) ==
  {sorted[k].index : k \in {j \in 1..Len(sorted) :
      \E e \in 1..Len(BinEventList(sorted[j].bin)) :
         BinEventList(sorted[j].bin)[e].kind = "NOTE_OFF"}}

\* the inner while True loop (lines 459-468): pop the bins below cursor + buffer_size
RECURSIVE BlockBins(_, _)
BlockBins(remaining, limit) ==
  IF remaining # <<>> /\ Head(remaining).index < limit
  THEN <<Head(remaining)>> \o BlockBins(Tail(remaining), limit)
  ELSE <<>>

RECURSIVE DropBins(_, _)
DropBins(remaining, limit) ==
  IF remaining # <<>> /\ Head(remaining).index < limit
  THEN DropBins(Tail(remaining), limit)
  ELSE remaining

\* offset_in_block = bin_index - cursor (line 489)
OffsetInBlockNoCursor(index, block_cursor) == index

OffsetInBlock(index, block_cursor) == index - block_cursor

\* segment_start after a bin at offset_in_block (lines 490-493)
NextSegmentStartAlways(start, offset_in_block) == offset_in_block

NextSegmentStart(start, offset_in_block) ==
  IF offset_in_block - start > 0 THEN offset_in_block ELSE start

\* past_last_event (line 545)
PastLastEvent(cursor_end) == cursor_end >= last_event_sample_index

\* should_stop (lines 547-560)
ShouldStopOnSilence(cursor_end, remaining, vs, frames) ==
  \/ /\ PastLastEvent(cursor_end)
     /\ cursor_end >= last_note_off_sample_index + max_samples_after_last_note_off
  \/ /\ PastLastEvent(cursor_end)
     /\ remaining = <<>>
     /\ Running(vs) = {}
  \/ ~frames.loud

ShouldStopLate(cursor_end, remaining, vs, frames) ==
  \/ /\ PastLastEvent(cursor_end)
     /\ cursor_end > last_note_off_sample_index + max_samples_after_last_note_off
  \/ /\ PastLastEvent(cursor_end)
     /\ remaining = <<>>
     /\ (Running(vs) = {} \/ ~frames.loud)

ShouldStopWithoutTimeout(cursor_end, remaining, vs, frames) ==
  /\ PastLastEvent(cursor_end)
  /\ remaining = <<>>
  /\ (Running(vs) = {} \/ ~frames.loud)

ShouldStop(cursor_end, remaining, vs, frames) ==
  \/ /\ PastLastEvent(cursor_end)
     /\ cursor_end >= last_note_off_sample_index + max_samples_after_last_note_off
  \/ /\ PastLastEvent(cursor_end)
     /\ remaining = <<>>
     /\ (Running(vs) = {} \/ ~frames.loud)

\* ---------------------------------------------------------------- Init
InitOf(pools, ticks, lengths) ==
  /\ max_voices \in pools
  /\ tick_size \in ticks
  /\ buffer_size \in BufferSizes
  /\ buffer_size % tick_size = 0
  /\ retrigger_mode \in RetriggerModes
  /\ is_using_adsr \in BOOLEAN
  /\ adsr_lengths \in (IF is_using_adsr THEN lengths ELSE {<<0, 0, 0>>})
  /\ unit = NoUnit
  /\ voices = [k \in 1..max_voices |-> NewVoice]
  /\ event_bins = <<>>
  /\ num_calls = 0
  /\ call = NoCall
  /\ pc = "build"
  /\ remaining_bins = <<>>
  /\ last_note_off_sample_index = 0
  /\ last_event_sample_index = 0
  /\ max_samples_after_last_note_off = 0
  /\ num_processed_blocks = 0
  /\ cursor = 0
  /\ block_event_bins = <<>>
  /\ block_frames = NoFrames
  /\ segment_start = 0
  /\ bin_index = 0
  /\ bin_events = <<>>
  /\ voice = 0
  /\ should_stop = FALSE
  /\ total_frames = 0
  /\ interpreted = <<>>
  /\ last_voice = [id \in NoteIds |-> 0]

InitWith(pools, ticks) == InitOf(pools, ticks, AdsrLengths)

Init == InitWith(OneVoice, TickSizes)

\* SpecCtor starts before EventScheduler.__init__ runs: the configuration
\* variables hold the arguments of the call and there is no voice yet
InitCtor ==
  /\ max_voices \in OneVoice
  /\ tick_size \in CtorTickSizes
  /\ buffer_size \in BufferSizes
  /\ retrigger_mode \in RetriggerModes
  /\ is_using_adsr \in BOOLEAN
  /\ adsr_lengths \in (IF is_using_adsr THEN AdsrLengths ELSE {<<0, 0, 0>>})
  /\ unit = NoUnit
  /\ voices = <<>>
  /\ event_bins = <<>>
  /\ num_calls = 0
  /\ call = NoCall
  /\ pc = "new"
  /\ remaining_bins = <<>>
  /\ last_note_off_sample_index = 0
  /\ last_event_sample_index = 0
  /\ max_samples_after_last_note_off = 0
  /\ num_processed_blocks = 0
  /\ cursor = 0
  /\ block_event_bins = <<>>
  /\ block_frames = NoFrames
  /\ segment_start = 0
  /\ bin_index = 0
  /\ bin_events = <<>>
  /\ voice = 0
  /\ should_stop = FALSE
  /\ total_frames = 0
  /\ interpreted = <<>>
  /\ last_voice = [id \in NoteIds |-> 0]

\* the test of lines 267-274; buffer_size % 0 raises ZeroDivisionError
RejectsOnlyZeroTick(buffer, tick) == tick = 0

ConstructorRaises(buffer, tick) == tick = 0 \/ buffer % tick # 0

\* EventScheduler.__init__ (lines 255-293): the test, then the voice pool
Construct ==
  /\ pc = "new"
  /\ IF ConstructorRaises(buffer_size, tick_size)
     THEN /\ pc' = "ctor_error"
          /\ voices' = voices
     ELSE /\ pc' = "build"
          /\ voices' = [k \in 1..max_voices |-> NewVoice]
  /\ UNCHANGED <<config, event_bins, num_calls, call, render_locals, history>>

InitPool == InitWith({MaxVoices}, {1})

InitAnyPool == InitWith(AnyPool, {1})

\* ---------------------------------------------------------------- actions
\* EventScheduler.add_event(time, kind, data)
AddEventFrom(times, tags, limit) ==
  /\ pc = "build"
  /\ num_calls < limit
  /\ \E t2 \in times, kind \in EventKinds, note_id \in NoteIds, data \in tags :
       LET index == QuantizedSampleIndex(kind, t2)
       IN /\ event_bins' = AddToBins(event_bins, index, kind, note_id, data)
          /\ call' = [NoCall EXCEPT !.op = "add_event", !.time2 = t2, !.kind = kind,
                                    !.note_id = note_id, !.data = data, !.index = index]
  /\ num_calls' = num_calls + 1
  /\ UNCHANGED <<config, voices, pc, render_locals, history>>

AddEvent == AddEventFrom(Times2, OneTag, MaxCalls)

AddGridEvent == AddEventFrom(GridTimes2, OneTag, MaxGridCalls)

AddTaggedEvent == AddEventFrom(StartTimes2, DataTags, MaxGridCalls)

\* EventScheduler.add_note(time, duration, data): NOTE_ON at time, NOTE_OFF at
\* time + duration
AddNoteFrom(times, durations, tags, limit) ==
  /\ pc = "build"
  /\ num_calls < limit
  /\ \E t2 \in times, d2 \in durations, note_id \in NoteIds, data \in tags :
       LET on_index == QuantizedSampleIndex("NOTE_ON", t2)
           off_index == QuantizedSampleIndex("NOTE_OFF", t2 + d2)
       IN /\ event_bins' = AddToBins(AddToBins(event_bins, on_index, "NOTE_ON", note_id, data),
                                     off_index, "NOTE_OFF", note_id, data)
          /\ call' = [NoCall EXCEPT !.op = "add_note", !.time2 = t2, !.duration2 = d2,
                                    !.note_id = note_id, !.data = data, !.index = on_index,
                                    !.off_index = off_index]
  /\ num_calls' = num_calls + 1
  /\ UNCHANGED <<config, voices, pc, render_locals, history>>

AddGridNote == AddNoteFrom(GridTimes2, GridDurations2, OneTag, MaxGridCalls)

AddTaggedNote == AddNoteFrom(DataTimes2, GridDurations2, DataTags, MaxGridCalls)

\* the head of one iteration of the block loop (lines 457-471): the bins of
\* the block are taken off the bins that remain
LoopHead(remaining) ==
  LET c == num_processed_blocks * buffer_size
  IN /\ cursor' = c
     /\ block_event_bins' = BlockBins(remaining, c + buffer_size)
     /\ remaining_bins' = DropBins(remaining, c + buffer_size)
     /\ block_frames' = EmptyFrames
     /\ segment_start' = 0
     /\ pc' = "bins"

\* EventScheduler.render up to the first block (lines 386-471); block_frames is
\* None here, so the loop is entered
Render ==
  /\ pc = "build"
  /\ \E tail \in TailSamples :
       LET sorted == SortedBins([x \in DOMAIN event_bins |-> GetSimplified(event_bins[x])])
           offs == NoteOffIndices(sorted)
       IN /\ call' = [NoCall EXCEPT !.op = "render"]
          /\ max_samples_after_last_note_off' = tail
          /\ IF sorted = <<>> \/ offs = {}
             THEN /\ pc' = "done"
                  /\ remaining_bins' = sorted
                  /\ UNCHANGED <<last_note_off_sample_index, last_event_sample_index,
                                 cursor, block_event_bins, block_frames, segment_start>>
             ELSE /\ last_event_sample_index' = sorted[Len(sorted)].index
                  /\ last_note_off_sample_index' = SetMax(offs)
                  /\ LoopHead(sorted)
  /\ UNCHANGED <<config, voices, event_bins, num_calls, num_processed_blocks,
                 bin_index, bin_events, voice, should_stop, history>>

\* the next bin of the block: the sub-segment up to it (lines 487-493)
EnterBin ==
  /\ pc = "bins"
  /\ block_event_bins # <<>>
  /\ LET b == Head(block_event_bins)
         offset_in_block == OffsetInBlock(b.index, cursor)
         segment_length == offset_in_block - segment_start
     IN /\ \E loud \in LoudChoices(voices, segment_length) :
             block_frames' = ExtendFrames(block_frames, segment_length, loud)
        /\ voices' = RenderSegment(voices, segment_length)
        /\ segment_start' = NextSegmentStart(segment_start, offset_in_block)
        /\ bin_index' = b.index
        /\ bin_events' = BinEventList(b.bin)
        /\ pc' = IF BinEventList(b.bin) = <<>> THEN "bins" ELSE "events"
  /\ block_event_bins' = Tail(block_event_bins)
  /\ UNCHANGED <<config, event_bins, num_calls, call, remaining_bins,
                 last_note_off_sample_index, last_event_sample_index,
                 max_samples_after_last_note_off, num_processed_blocks, cursor,
                 voice, should_stop, history>>

\* which voice a NOTE_ON starts, and how (lines 496-523); 0: IndexError
NoRetrigger(vs, note_id) == 0

AlwaysRetrigger(vs, note_id) == GetRetriggerVoice(vs, note_id)

RetriggerOnlyCutTails(mode, vs, note_id) ==
  IF mode = "CUT_TAILS" THEN GetRetriggerVoice(vs, note_id) ELSE 0

\* the voice a NOTE_ON retriggers in a scheduler of the given mode (lines 497-502)
RetriggerIn(mode, vs, note_id) ==
  IF mode # "ALLOW_TAILS" THEN GetRetriggerVoice(vs, note_id) ELSE 0

SelectRetrigger(vs, note_id) == RetriggerIn(retrigger_mode, vs, note_id)

\* the test of lines 503-507 on the retrigger voice sel
SoftInAnyCase(mode, sel) == sel # 0 /\ mode = "ATTACK_FROM_CURRENT_LEVEL"

SoftIn(mode, sel) ==
  /\ sel # 0
  /\ mode = "ATTACK_FROM_CURRENT_LEVEL"
  /\ is_using_adsr

NeverSoftRetrigger(vs, note_id) == FALSE

SoftRetrigger(vs, note_id) == SoftIn(retrigger_mode, SelectRetrigger(vs, note_id))

\* retrigger_voice or self._get_or_steal_voice() (line 518)
VoiceFor(sel, vs) == IF sel # 0 THEN sel ELSE GetOrStealVoice(vs)

SelectVoice(vs, note_id) == VoiceFor(SelectRetrigger(vs, note_id), vs)

\* the pool if every voice held the prototype envelope instead of a clone of it
StartVoiceSharedEnvelope(k, soft, vs, note_id, data, index) ==
  LET on == IF soft
            THEN VoiceNoteOn(vs[k], note_id, data, index, FALSE, FALSE, TRUE)
            ELSE VoiceNoteOn(vs[k], note_id, data, index, TRUE, TRUE, TRUE)
  IN [j \in 1..Len(vs) |->
        IF j = k THEN on
        ELSE [vs[j] EXCEPT !.stage = on.stage, !.value = on.value, !.i = on.i,
                           !.seg = on.seg, !.start = on.start, !.target = on.target]]

StartVoiceKeepCounter(k, soft, vs, note_id, data, index) ==
  IF soft
  THEN [vs EXCEPT ![k] = VoiceNoteOn(vs[k], note_id, data, index, FALSE, FALSE, TRUE)]
  ELSE [vs EXCEPT ![k] = VoiceNoteOn(vs[k], note_id, data, index, TRUE, FALSE, TRUE)]

\* the two calls of Voice.note_on (lines 508-515, 519-523)
StartVoice(k, soft, vs, note_id, data, index) ==
  IF soft
  THEN [vs EXCEPT ![k] = VoiceNoteOn(vs[k], note_id, data, index, FALSE, FALSE, TRUE)]
  ELSE [vs EXCEPT ![k] = VoiceNoteOn(vs[k], note_id, data, index, TRUE, TRUE, TRUE)]

NoteOn(vs, note_id, data, index) ==
  StartVoice(SelectVoice(vs, note_id), SoftRetrigger(vs, note_id), vs, note_id, data, index)

\* a NOTE_ON event of the current bin (lines 496-523)
InterpretNoteOn ==
  /\ pc = "events"
  /\ bin_events # <<>>
  /\ Head(bin_events).kind = "NOTE_ON"
  /\ LET note_id == Head(bin_events).note_id
         k == SelectVoice(voices, note_id)
     IN /\ voice' = k
        /\ IF k = 0
           THEN /\ pc' = "error"
                /\ UNCHANGED <<voices, bin_events, interpreted, last_voice>>
           ELSE /\ voices' = NoteOn(voices, note_id, Head(bin_events).data, bin_index)
                /\ bin_events' = Tail(bin_events)
                /\ interpreted' = Append(interpreted, [index |-> bin_index, kind |-> "NOTE_ON",
                                                       note_id |-> note_id,
                                                       data |-> Head(bin_events).data])
                /\ last_voice' = [last_voice EXCEPT ![note_id] = k]
                /\ pc' = IF Tail(bin_events) = <<>> THEN "bins" ELSE "events"
  /\ UNCHANGED <<config, event_bins, num_calls, call, remaining_bins,
                 last_note_off_sample_index, last_event_sample_index,
                 max_samples_after_last_note_off, num_processed_blocks, cursor,
                 block_event_bins, block_frames, segment_start, bin_index,
                 should_stop, total_frames>>

\* a NOTE_OFF event of the current bin (lines 524-535)
InterpretNoteOff ==
  /\ pc = "events"
  /\ bin_events # <<>>
  /\ Head(bin_events).kind = "NOTE_OFF"
  /\ LET note_id == Head(bin_events).note_id
         target_voice == GetRetriggerVoice(voices, note_id)
     IN /\ voice' = target_voice
        /\ voices' = IF target_voice # 0
                     THEN [voices EXCEPT ![target_voice] = VoiceNoteOff(@, bin_index)]
                     ELSE voices
        /\ interpreted' = Append(interpreted, [index |-> bin_index, kind |-> "NOTE_OFF",
                                              note_id |-> note_id,
                                              data |-> Head(bin_events).data])
  /\ bin_events' = Tail(bin_events)
  /\ pc' = IF Tail(bin_events) = <<>> THEN "bins" ELSE "events"
  /\ UNCHANGED <<config, event_bins, num_calls, call, remaining_bins,
                 last_note_off_sample_index, last_event_sample_index,
                 max_samples_after_last_note_off, num_processed_blocks, cursor,
                 block_event_bins, block_frames, segment_start, bin_index,
                 should_stop, total_frames, last_voice>>

\* the final sub-segment, the stop test and the yield (lines 537-562)
EndBlock ==
  /\ pc = "bins"
  /\ block_event_bins = <<>>
  /\ LET remaining_samples == buffer_size - segment_start
         cursor_end == cursor + buffer_size
     IN \E loud \in LoudChoices(voices, remaining_samples) :
          LET frames == ExtendFrames(block_frames, remaining_samples, loud)
              vs == RenderSegment(voices, remaining_samples)
          IN /\ block_frames' = frames
             /\ voices' = vs
             /\ should_stop' = ShouldStop(cursor_end, remaining_bins, vs, frames)
             /\ total_frames' = total_frames + frames.len
  /\ num_processed_blocks' = num_processed_blocks + 1
  /\ pc' = "yield"
  /\ UNCHANGED <<config, event_bins, num_calls, call, remaining_bins,
                 last_note_off_sample_index, last_event_sample_index,
                 max_samples_after_last_note_off, cursor, block_event_bins,
                 segment_start, bin_index, bin_events, voice, interpreted, last_voice>>

\* the consumer asks for the next block: the break after the yield, or the
\* loop test and the head of the next iteration (lines 452-471, 563-564)
Resume ==
  /\ pc = "yield"
  /\ IF ~should_stop /\ (Running(voices) # {} \/ remaining_bins # <<>>)
     THEN LoopHead(remaining_bins)
     ELSE /\ pc' = "done"
          /\ UNCHANGED <<cursor, block_event_bins, remaining_bins, block_frames,
                         segment_start>>
  /\ UNCHANGED <<config, voices, event_bins, num_calls, call, last_note_off_sample_index,
                 last_event_sample_index, max_samples_after_last_note_off,
                 num_processed_blocks, bin_index, bin_events, voice, should_stop, history>>

Next ==
  \/ AddEvent
  \/ Render
  \/ EnterBin
  \/ InterpretNoteOn
  \/ InterpretNoteOff
  \/ EndBlock
  \/ Resume

Spec == Init /\ [][Next]_vars

\* SpecUnitTick: Spec with tick_size 1 and without CUT_TAILS, which selects
\* from a pool of one voice the voice ALLOW_TAILS selects
InitUnitTick == InitWith(OneVoice, {1}) /\ retrigger_mode # "CUT_TAILS"

SpecUnitTick == InitUnitTick /\ [][Next]_vars

\* the steps of the generator render returns, taken as its consumer iterates
RenderStep ==
  \/ EnterBin
  \/ InterpretNoteOn
  \/ InterpretNoteOff
  \/ EndBlock
  \/ Resume

\* ---------------------------------------------------------------- SpecAdsr
\* the scheduler variables of a specification that exercises a component on
\* its own: no scheduler, no voice
NoSchedulerOf(modes) ==
  /\ max_voices = 0
  /\ tick_size = 1
  /\ buffer_size = 1
  /\ retrigger_mode \in modes
  /\ voices = <<>>
  /\ event_bins = <<>>
  /\ num_calls = 0
  /\ call = NoCall
  /\ pc = "unit"
  /\ remaining_bins = <<>>
  /\ last_note_off_sample_index = 0
  /\ last_event_sample_index = 0
  /\ max_samples_after_last_note_off = 0
  /\ num_processed_blocks = 0
  /\ cursor = 0
  /\ block_event_bins = <<>>
  /\ block_frames = NoFrames
  /\ segment_start = 0
  /\ bin_index = 0
  /\ bin_events = <<>>
  /\ voice = 0
  /\ should_stop = FALSE
  /\ total_frames = 0
  /\ interpreted = <<>>
  /\ last_voice = [id \in NoteIds |-> 0]

NoScheduler == NoSchedulerOf({"ALLOW_TAILS"})

scheduler == <<max_voices, tick_size, buffer_size, retrigger_mode, is_using_adsr,
               adsr_lengths, voices, event_bins, num_calls, call, pc, render_locals,
               history>>

\* ExpADSR(...) as constructed, with two counting handlers registered
NewEnvelope == [stage |-> "IDLE", value |-> ZeroValue, i |-> 0, seg |-> 0, g |-> 0,
                start |-> ZeroValue, target |-> "ZERO",
                handlers |-> <<CountCalls(1), CountCalls(2)>>, fired |-> <<0, 0>>]

\* unit in SpecAdsr: the envelope, the last call made on it, the values that
\* call returned, and the last value any generate call returned before it;
\* event is the last call other than generate and mark the number of values
\* the envelope had emitted when it was made
InitAdsr ==
  /\ NoScheduler
  /\ is_using_adsr = TRUE
  /\ adsr_lengths \in UnitAdsrLengths
  /\ unit = [kind |-> "adsr", env |-> NewEnvelope, op |-> "new", out |-> <<>>,
             before |-> <<>>, calls |-> 0, event |-> "new", mark |-> 0]

\* the tuple ExpADSR.generate returns: the value after each iteration
GenerateOut(v, num_samples) == [k \in 1..num_samples |-> Generate(v, k).value]

LastOut(u) == IF u.out = <<>> THEN u.before ELSE <<u.out[Len(u.out)]>>

UnitCall(op, env, out) ==
  /\ pc = "unit" /\ unit.kind = "adsr"
  /\ unit.calls < MaxUnitCalls
  /\ unit' = [unit EXCEPT !.env = env, !.op = op, !.out = out,
                          !.before = LastOut(unit), !.calls = @ + 1,
                          !.event = IF op = "generate" THEN @ ELSE op,
                          !.mark = IF op = "generate" THEN @ ELSE env.g]
  /\ UNCHANGED scheduler

UnitReset == UnitCall("reset", AdsrReset(unit.env), <<>>)

UnitNoteOn == UnitCall("note_on", AdsrNoteOn(unit.env), <<>>)

UnitNoteOff == UnitCall("note_off", AdsrNoteOff(unit.env), <<>>)

UnitGenerate ==
  \E num_samples \in UnitSamples :
    UnitCall("generate", Generate(unit.env, num_samples), GenerateOut(unit.env, num_samples))

NextAdsr ==
  \/ UnitReset
  \/ UnitNoteOn
  \/ UnitNoteOff
  \/ UnitGenerate

SpecAdsr == InitAdsr /\ [][NextAdsr]_vars

\* ---------------------------------------------------------------- SpecSynth
\* unit in SpecSynth: a CallbackSynth; n is its counter, seen the arguments
\* (n, num_samples) its callback has received since the last reset
InitSynth ==
  /\ NoScheduler
  /\ is_using_adsr = FALSE
  /\ adsr_lengths = <<0, 0, 0>>
  /\ unit = [kind |-> "synth", n |-> 0, seen |-> <<>>, op |-> "new", calls |-> 0]

ProcessAdvanceFirst(u, num_samples) ==
  [u EXCEPT !.n = @ + num_samples,
            !.seen = Append(@, [n |-> u.n + num_samples, num_samples |-> num_samples])]

\* CallbackSynth.process: the callback, then the counter
SynthProcessed(u, num_samples) ==
  [u EXCEPT !.seen = Append(@, [n |-> u.n, num_samples |-> num_samples]),
            !.n = @ + num_samples]

\* CallbackSynth.reset
SynthWasReset(u) == [u EXCEPT !.n = 0, !.seen = <<>>]

SynthProcess ==
  /\ pc = "unit" /\ unit.kind = "synth"
  /\ unit.calls < MaxUnitCalls
  /\ \E num_samples \in SynthSamples :
       unit' = [SynthProcessed(unit, num_samples) EXCEPT !.op = "process", !.calls = @ + 1]
  /\ UNCHANGED scheduler

SynthReset ==
  /\ pc = "unit" /\ unit.kind = "synth"
  /\ unit.calls < MaxUnitCalls
  /\ unit' = [SynthWasReset(unit) EXCEPT !.op = "reset", !.calls = @ + 1]
  /\ UNCHANGED scheduler

NextSynth ==
  \/ SynthProcess
  \/ SynthReset

SpecSynth == InitSynth /\ [][NextSynth]_vars

\* ------------------------------------------------------------------ SpecMix
Max2(a, b) == IF a >= b THEN a ELSE b

\* max(len(frames) for _, frames in setup)
RECURSIVE LongestLength(_)
LongestLength(setup) ==
  IF Len(setup) = 0 THEN 0
  ELSE Max2(Len(Head(setup)[2]), LongestLength(Tail(setup)))

\* np.zeros((length, 2))
Zeros(length) == [i \in 1..length |-> <<0, 0>>]

MixOverwrite(result, volume, frames) ==
  [i \in 1..Len(result) |->
     IF i <= Len(frames)
     THEN <<volume * frames[i][1], volume * frames[i][2]>>
     ELSE result[i]]

\* result[:n] += volume * arr
MixAdd(result, volume, frames) ==
  [i \in 1..Len(result) |->
     IF i <= Len(frames)
     THEN <<result[i][1] + volume * frames[i][1],
            result[i][2] + volume * frames[i][2]>>
     ELSE result[i]]

\* the loop of mix over setup
RECURSIVE MixInto(_, _)
MixInto(result, setup) ==
  IF Len(setup) = 0 THEN result
  ELSE MixInto(IF Len(Head(setup)[2]) = 0 THEN result
               ELSE MixAdd(result, Head(setup)[1], Head(setup)[2]),
               Tail(setup))

mix(setup) ==
  IF Len(setup) = 0 THEN <<>>
  ELSE MixInto(Zeros(LongestLength(setup)), setup)

\* unit in SpecMix: the (volume, buffer) pairs Master.render_collect has
\* gathered and the buffer mix returned for them
InitMix ==
  /\ NoScheduler
  /\ is_using_adsr = FALSE
  /\ adsr_lengths = <<0, 0, 0>>
  /\ unit = [kind |-> "mix", setup |-> <<>>, result |-> <<>>, op |-> "new"]

\* rendered.append((track.volume, track.render_collect()))
MixAppend ==
  /\ pc = "unit" /\ unit.kind = "mix"
  /\ unit.op # "mix"
  /\ Len(unit.setup) < MaxTracks
  /\ \E volume \in MixVolumes, frames \in MixBuffers :
       unit' = [unit EXCEPT !.setup = Append(@, <<volume, frames>>), !.op = "append"]
  /\ UNCHANGED scheduler

\* return mix(rendered)
MixCall ==
  /\ pc = "unit" /\ unit.kind = "mix"
  /\ unit.op # "mix"
  /\ unit' = [unit EXCEPT !.result = mix(unit.setup), !.op = "mix"]
  /\ UNCHANGED scheduler

NextMix ==
  \/ MixAppend
  \/ MixCall

SpecMix == InitMix /\ [][NextMix]_vars

\* ---------------------------------------------------------------- SpecOrder
\* event_bins after the first n of the add_event calls
RECURSIVE BinsAfter(_, _)
BinsAfter(calls, n) ==
  IF n <= 0 THEN <<>>
  ELSE AddToBins(BinsAfter(calls, n - 1),
                 QuantizedSampleIndex(calls[n].kind, calls[n].time2),
                 calls[n].kind, calls[n].note_id, 0)

\* the events of one bin interpreted in turn (lines 494-535); assigned lists
\* the voice each NOTE_ON got
RECURSIVE InterpretEvents(_, _, _, _)
InterpretEvents(vs, events, index, assigned) ==
  IF events = <<>> THEN [voices |-> vs, assigned |-> assigned]
  ELSE LET e == Head(events)
           target_voice == GetRetriggerVoice(vs, e.note_id)
       IN IF e.kind = "NOTE_ON"
          THEN InterpretEvents(NoteOn(vs, e.note_id, e.data, index), Tail(events), index,
                               Append(assigned, <<e.note_id, SelectVoice(vs, e.note_id)>>))
          ELSE InterpretEvents(IF target_voice # 0
                               THEN [vs EXCEPT ![target_voice] = VoiceNoteOff(@, index)]
                               ELSE vs,
                               Tail(events), index, assigned)

\* the bins in ascending order, the voices rendered up to each bin and the
\* bin interpreted (lines 487-535): the voices after each bin and the voice of
\* each NOTE_ON
RECURSIVE WalkBins(_, _, _)
WalkBins(vs, sorted, rendered) ==
  IF sorted = <<>> THEN <<>>
  ELSE LET b == Head(sorted)
           r == InterpretEvents(RenderSegment(vs, b.index - rendered),
                                BinEventList(b.bin), b.index, <<>>)
       IN <<[index |-> b.index, assigned |-> r.assigned, voices |-> r.voices]>>
          \o WalkBins(r.voices, Tail(sorted), Max(rendered, b.index))

\* render of a pool of MaxVoices new voices on the given event_bins; nothing is
\* interpreted when no NOTE_OFF exists (lines 423-428)
WalkTimeline(bins) ==
  LET sorted == SortedBins([x \in DOMAIN bins |-> GetSimplified(bins[x])])
  IN IF NoteOffIndices(sorted) = {} THEN <<>>
     ELSE WalkBins([k \in 1..MaxVoices |-> NewVoice], sorted, 0)

\* the calls in the order given by perm
Reordered(calls, perm) == [k \in 1..Len(calls) |-> calls[perm[k]]]

OrdersOf(n) == {p \in [1..n -> 1..n] : \A i, j \in 1..n : i # j => p[i] # p[j]}

\* unit in SpecOrder: add_event calls, no two of one note id in one bin, an
\* order perm in which a second scheduler receives them, and what render
\* does on the first (a) and on the second (b)
InitOrder ==
  /\ NoSchedulerOf(RetriggerModes)
  /\ is_using_adsr \in BOOLEAN
  /\ adsr_lengths \in (IF is_using_adsr THEN AdsrLengths ELSE {<<0, 0, 0>>})
  /\ unit = [kind |-> "order", calls |-> <<>>, perm |-> <<>>, op |-> "new",
             a |-> <<>>, b |-> <<>>]

OrderAddEvent ==
  /\ pc = "unit" /\ unit.kind = "order"
  /\ unit.op # "render"
  /\ Len(unit.calls) < MaxOrderCalls
  /\ \E t2 \in OrderTimes2, kind \in EventKinds, note_id \in NoteIds :
       /\ \A c \in 1..Len(unit.calls) :
            ~(/\ unit.calls[c].note_id = note_id
              /\ QuantizedSampleIndex(unit.calls[c].kind, unit.calls[c].time2)
                   = QuantizedSampleIndex(kind, t2))
       /\ unit' = [unit EXCEPT !.calls = Append(@, [time2 |-> t2, kind |-> kind,
                                                    note_id |-> note_id]),
                               !.op = "add_event"]
  /\ UNCHANGED scheduler

OrderRender ==
  /\ pc = "unit" /\ unit.kind = "order"
  /\ unit.op = "add_event"
  /\ \E perm \in OrdersOf(Len(unit.calls)) :
       unit' = [unit EXCEPT
                  !.perm = perm, !.op = "render",
                  !.a = WalkTimeline(BinsAfter(unit.calls, Len(unit.calls))),
                  !.b = WalkTimeline(BinsAfter(Reordered(unit.calls, perm), Len(unit.calls)))]
  /\ UNCHANGED scheduler

NextOrder ==
  \/ OrderAddEvent
  \/ OrderRender

SpecOrder == InitOrder /\ [][NextOrder]_vars

\* ---------------------------------------------------------------- SpecFloat
RECURSIVE PowerOfTwo(_)
PowerOfTwo(e) == IF e <= 0 THEN 1 ELSE 2 * PowerOfTwo(e - 1)

\* the spacing of the floats around x >= 0: 1 while x fits the significand
RECURSIVE FloatSpacing(_, _)
FloatSpacing(x, ulp) ==
  IF x < ulp * PowerOfTwo(MantissaBits) THEN ulp ELSE FloatSpacing(x, 2 * ulp)

\* the float nearest to x >= 0, a tie going to the even significand
RoundFloat(x) ==
  LET ulp == FloatSpacing(x, 1)
      q == x \div ulp
      r == x % ulp
      down == q * ulp
      up == (q + 1) * ulp
  IN IF r = 0 THEN x
     ELSE IF 2 * r > ulp \/ (2 * r = ulp /\ q % 2 = 1) THEN up
     ELSE down

\* time + duration (line 309)
FloatAdd(x, y) == RoundFloat(x + y)

\* the times a caller can pass: the floats up to MaxFloatTime samples
FloatTimes == {x \in 0..MaxFloatTime : RoundFloat(x) = x}

\* EventScheduler.add_note(time, duration, data) with time and duration in
\* whole samples (sample_rate 1, so that the products and quotients of
\* add_event are exact) and time + duration a floating-point sum
AddFloatNote ==
  /\ pc = "build"
  /\ num_calls < MaxFloatCalls
  /\ \E t \in FloatTimes, d \in FloatDurations, note_id \in NoteIds :
       LET on_index == QuantizedSampleIndex("NOTE_ON", t * TimeDen)
           off_index == QuantizedSampleIndex("NOTE_OFF", FloatAdd(t, d) * TimeDen)
       IN /\ event_bins' = AddToBins(AddToBins(event_bins, on_index, "NOTE_ON", note_id, 0),
                                     off_index, "NOTE_OFF", note_id, 0)
          /\ call' = [NoCall EXCEPT !.op = "add_note", !.time2 = t * TimeDen,
                                    !.duration2 = d * TimeDen,
                                    !.note_id = note_id, !.index = on_index,
                                    !.off_index = off_index]
  /\ num_calls' = num_calls + 1
  /\ UNCHANGED <<config, voices, pc, render_locals, history>>

NextFloat ==
  \/ AddFloatNote
  \/ Render
  \/ EnterBin
  \/ InterpretNoteOn
  \/ InterpretNoteOff
  \/ EndBlock
  \/ Resume

SpecFloat == Init /\ [][NextFloat]_vars

\* ---------------------------------------------------------------- SpecAgain
\* a second call of render (render_collect, lines 359-375) on the scheduler a
\* finished render left: the same event_bins and tail, new generator locals,
\* and the voices as they are (render never resets self.voices).  unit keeps
\* what the first render did, the voices it left, and the voices after each
\* bin of a render on new voices
RenderAgain ==
  /\ pc = "done"
  /\ unit = NoUnit
  /\ call.op = "render"
  /\ LET sorted == SortedBins([x \in DOMAIN event_bins |-> GetSimplified(event_bins[x])])
         offs == NoteOffIndices(sorted)
     IN /\ unit' = [kind |-> "again", blocks |-> num_processed_blocks,
                    frames |-> total_frames, interpreted |-> interpreted,
                    voices |-> voices,
                    fresh |-> IF offs = {} THEN <<>>
                              ELSE WalkBins([k \in 1..max_voices |-> NewVoice], sorted, 0)]
        /\ IF sorted = <<>> \/ offs = {}
           THEN /\ pc' = "done"
                /\ remaining_bins' = sorted
                /\ UNCHANGED <<last_note_off_sample_index, last_event_sample_index,
                               cursor, block_event_bins, block_frames, segment_start>>
           ELSE /\ last_event_sample_index' = sorted[Len(sorted)].index
                /\ last_note_off_sample_index' = SetMax(offs)
                /\ cursor' = 0
                /\ block_event_bins' = BlockBins(sorted, buffer_size)
                /\ remaining_bins' = DropBins(sorted, buffer_size)
                /\ block_frames' = EmptyFrames
                /\ segment_start' = 0
                /\ pc' = "bins"
  /\ num_processed_blocks' = 0
  /\ bin_index' = 0
  /\ bin_events' = <<>>
  /\ voice' = 0
  /\ should_stop' = FALSE
  /\ total_frames' = 0
  /\ interpreted' = <<>>
  /\ UNCHANGED <<max_voices, tick_size, buffer_size, retrigger_mode, is_using_adsr,
                 adsr_lengths, voices, event_bins, num_calls, call,
                 max_samples_after_last_note_off, last_voice>>

NextAgain ==
  \/ AddGridNote
  \/ Render
  \/ RenderAgain
  \/ EnterBin
  \/ InterpretNoteOn
  \/ InterpretNoteOff
  \/ EndBlock
  \/ Resume

SpecAgain == InitPool /\ [][NextAgain]_vars

\* SpecCtor: Spec with the constructor call as its first step
NextCtor ==
  \/ Construct
  \/ Next

SpecCtor == InitCtor /\ [][NextCtor]_vars

NextPool ==
  \/ AddGridEvent
  \/ AddGridNote
  \/ Render
  \/ EnterBin
  \/ InterpretNoteOn
  \/ InterpretNoteOff
  \/ EndBlock
  \/ Resume

SpecPool == InitPool /\ [][NextPool]_vars

SpecAnyPool == InitAnyPool /\ [][NextPool]_vars

\* SpecNotes: the pool of SpecPool, a timeline built by add_note alone
NextNotes ==
  \/ AddGridNote
  \/ Render
  \/ EnterBin
  \/ InterpretNoteOn
  \/ InterpretNoteOff
  \/ EndBlock
  \/ Resume

SpecNotes == InitPool /\ [][NextNotes]_vars

\* SpecRelease: SpecNotes with an envelope whose release has 0, 1 or 2 samples
InitRelease == InitOf({MaxVoices}, {1}, ReleaseLengths) /\ is_using_adsr

SpecRelease == InitRelease /\ [][NextNotes]_vars

\* SpecData: the pool of SpecPool, events whose data differ within a note id
NextData ==
  \/ AddTaggedEvent
  \/ AddTaggedNote
  \/ Render
  \/ EnterBin
  \/ InterpretNoteOn
  \/ InterpretNoteOff
  \/ EndBlock
  \/ Resume

SpecData == InitPool /\ [][NextData]_vars

\* ================================================================ properties
RenderedBlocks == num_processed_blocks > 0

\* a step of EnterBin or EndBlock that renders a sub-segment of positive length
SegmentRendered == pc = "bins" /\ block_frames'.len > block_frames.len

\* the output index of the first frame of the sub-segment being rendered
OutputIndex == total_frames + block_frames.len

\* the voice's next frame is the first one after a generator reset
AtFirstFrame(k) == voices[k].running /\ voices[k].n = 0

NoteOnStep == pc = "events" /\ Head(bin_events).kind = "NOTE_ON" /\ pc' # "error"

EventNoteId == Head(bin_events).note_id

\* no retrigger match for the NOTE_ON being interpreted
NoMatch ==
  \/ retrigger_mode = "ALLOW_TAILS"
  \/ \A k \in Running(voices) : voices[k].note_id # EventNoteId

OthersUnchanged(k) == \A j \in 1..Len(voices) : j # k => voices'[j] = voices[j]

LastInterpreted == interpreted[Len(interpreted)]

\* C1: every block yielded by render holds exactly buffer_size frames.
C1_BlockLength == pc = "yield" => block_frames.len = buffer_size

\* a block was yielded after a bin at a negative index and two bins inside the
\* block, with a voice running
C1_Witness ==
  /\ pc = "yield"
  /\ Running(voices) # {}
  /\ \E p, q, r \in 1..Len(interpreted) :
       /\ interpreted[p].index < 0
       /\ interpreted[q].index = 0
       /\ interpreted[r].index > 0 /\ interpreted[r].index < buffer_size

\* C2 as stated: the first frame after a resetting NOTE_ON at index i is mixed
\* at output index i, for every i.
C2_OnsetAtIndex ==
  [][SegmentRendered =>
       \A k \in 1..Len(voices) : AtFirstFrame(k) => OutputIndex = voices[k].last_on]_vars

\* C2 amended: the first frame after a resetting NOTE_ON at index i is mixed at
\* output index i when i >= 0, and at output index 0 when i < 0.
C2_OnsetAligned ==
  [][SegmentRendered =>
       \A k \in 1..Len(voices) : AtFirstFrame(k) => OutputIndex = Max(voices[k].last_on, 0)]_vars

\* a voice started strictly inside a block, after an earlier bin of the same
\* block, has had its frames mixed from its onset index on
C2_Witness ==
  /\ pc = "yield"
  /\ \E k \in 1..Len(voices) :
       /\ voices[k].running
       /\ voices[k].n > 0
       /\ voices[k].last_on % buffer_size # 0
       /\ voices[k].last_on > 0
       /\ total_frames - voices[k].n = voices[k].last_on
       /\ \E p \in 1..Len(interpreted) :
            /\ interpreted[p].index < voices[k].last_on
            /\ interpreted[p].index >= voices[k].last_on - (voices[k].last_on % buffer_size)

\* two successive add_event calls at the same nominal time, one NOTE_OFF and one NOTE_ON
SameTimePair ==
  /\ call.op = "add_event" /\ call'.op = "add_event"
  /\ call.time2 = call'.time2
  /\ call.kind # call'.kind

OffCall == IF call.kind = "NOTE_OFF" THEN call ELSE call'

OnCall == IF call.kind = "NOTE_ON" THEN call ELSE call'

\* in the order render walks the simplified bin, the NOTE_OFF of off_id comes
\* before the NOTE_ON of on_id
OffBeforeOn(events, off_id, on_id) ==
  \E p, q \in 1..Len(events) :
    /\ p < q
    /\ events[p].kind = "NOTE_OFF" /\ events[p].note_id = off_id
    /\ events[q].kind = "NOTE_ON" /\ events[q].note_id = on_id

SharedBinOrder ==
  OffBeforeOn(BinEventList(GetSimplified(event_bins'[OffCall.index])),
              OffCall.note_id, OnCall.note_id)

\* render never interprets a note id's NOTE_ON before the same id's NOTE_OFF of the same bin
InterpretedOffFirst ==
  \A p, q \in 1..Len(interpreted) :
    (p < q /\ interpreted[p].index = interpreted[q].index
           /\ interpreted[p].note_id = interpreted[q].note_id)
      => ~(interpreted[p].kind = "NOTE_ON" /\ interpreted[q].kind = "NOTE_OFF")

\* C3 as stated: for a NOTE_OFF and a NOTE_ON at the same nominal time the
\* release index is never greater than the onset index, and in a shared bin
\* the NOTE_OFF comes first.
C3_ReleaseNotAfterOnset ==
  [][SameTimePair =>
       /\ OffCall.index <= OnCall.index
       /\ (OffCall.index = OnCall.index => SharedBinOrder)]_vars

\* C3 amended: the release index is never less than the onset index; it is
\* equal when time * sample_rate / tick_size is an integer and one tick later
\* otherwise; in a shared bin the NOTE_OFF comes first when both carry the
\* same note id.
C3_ReleaseNotBeforeOnset ==
  [][/\ SameTimePair =>
          /\ OffCall.index >= OnCall.index
          /\ OffCall.index - OnCall.index \in {0, tick_size}
          /\ (OffCall.index = OnCall.index <=> call.time2 % (TimeDen * tick_size) = 0)
          /\ (OffCall.index = OnCall.index /\ OffCall.note_id = OnCall.note_id
                => SharedBinOrder)
     /\ InterpretedOffFirst]_vars

\* render interpreted a NOTE_OFF and then a NOTE_ON of one note id from one bin,
\* on a tick grid wider than a sample
C3_Witness ==
  /\ tick_size > 1
  /\ \E p, q \in 1..Len(interpreted) :
       /\ p < q
       /\ interpreted[p].index = interpreted[q].index
       /\ interpreted[p].note_id = interpreted[q].note_id
       /\ interpreted[p].kind = "NOTE_OFF" /\ interpreted[q].kind = "NOTE_ON"

\* C4: when a render that yielded blocks ends, no bin is left uninterpreted.
C4_TimelineExhausted ==
  (pc = "done" /\ RenderedBlocks) =>
     (remaining_bins = <<>> /\ block_event_bins = <<>>)

C6_TailBound ==
  (pc = "done" /\ RenderedBlocks) =>
     total_frames <= last_note_off_sample_index + max_samples_after_last_note_off

\* C6 amended: the stream ends no later than the first block whose end reaches
\* both the last event index and last_note_off_index + max tail.
C6_TailBoundBlock ==
  (pc = "done" /\ RenderedBlocks) =>
     /\ total_frames % buffer_size = 0
     /\ \/ total_frames = buffer_size
        \/ total_frames - buffer_size
             < Max(last_event_sample_index,
                   last_note_off_sample_index + max_samples_after_last_note_off)

\* the stream ended past last_note_off_index + max tail, with a NOTE_ON
\* scheduled after the last NOTE_OFF
C6_Witness ==
  /\ pc = "done" /\ RenderedBlocks
  /\ total_frames > last_note_off_sample_index + max_samples_after_last_note_off
  /\ last_event_sample_index > last_note_off_sample_index
  /\ total_frames > buffer_size

\* C7: at most max_voices voices are running, the pool never grows, and a
\* NOTE_ON never fails.
C7_PoolBound ==
  /\ Len(voices) = max_voices
  /\ Cardinality(Running(voices)) <= max_voices
  /\ pc # "error"

\* the voice a steal must take
StealTarget(k) ==
  LET all == 1..Len(voices)
      release_voices == {j \in all : voices[j].stage = "RELEASE"}
  IN IF is_using_adsr /\ release_voices # {}
     THEN k \in release_voices
          /\ \A j \in release_voices : voices[k].last_off <= voices[j].last_off
     ELSE \A j \in all : voices[k].last_on <= voices[j].last_on

C9_FirstFreeVoice ==
  [][(NoteOnStep /\ NoMatch) =>
       /\ (GetFreeVoices(voices) # {} =>
             /\ voice' \in GetFreeVoices(voices)
             /\ \A j \in GetFreeVoices(voices) : voice' <= j
             /\ voices'[voice'].running
             /\ voices'[voice'].note_id = EventNoteId
             /\ OthersUnchanged(voice'))
       /\ (voices[voice'].running => GetFreeVoices(voices) = {})]_vars

\* the second slot was started while the first was running
C9_Witness ==
  /\ pc \in {"bins", "events"}
  /\ Len(interpreted) >= 2
  /\ LastInterpreted.kind = "NOTE_ON"
  /\ voice = 2
  /\ voices[2].n = 0
  /\ voices[2].note_id = LastInterpreted.note_id
  /\ voices[1].running /\ voices[1].n > 0
  /\ voices[2].last_off = 0

\* the slot that played the latest NOTE_ON of the event's note id and has had
\* no note-on of another id since (0: none)
PreviousSlot ==
  IF last_voice[EventNoteId] # 0 /\ voices[last_voice[EventNoteId]].note_id = EventNoteId
  THEN last_voice[EventNoteId] ELSE 0

\* C10 as stated: under CUT_TAILS or ATTACK_FROM_CURRENT_LEVEL the next NOTE_ON
\* of a note id is played by the slot that played the previous one.
C10_SameSlot ==
  [][(NoteOnStep /\ retrigger_mode # "ALLOW_TAILS" /\ PreviousSlot # 0) =>
       voice' = PreviousSlot]_vars

\* C10 amended: ... provided that slot is still running when the second
\* NOTE_ON is interpreted.
C10_SameSlotIfRunning ==
  [][(NoteOnStep /\ retrigger_mode # "ALLOW_TAILS" /\ PreviousSlot # 0
        /\ voices[PreviousSlot].running) =>
       voice' = PreviousSlot]_vars

\* a retrigger reused the second slot although the first slot was free
C10_Witness ==
  /\ retrigger_mode # "ALLOW_TAILS"
  /\ pc \in {"bins", "events"}
  /\ Len(interpreted) >= 2
  /\ LastInterpreted.kind = "NOTE_ON"
  /\ voice = 2
  /\ ~voices[1].running
  /\ voices[2].running
  /\ \E p \in 1..(Len(interpreted) - 1) :
       /\ interpreted[p].kind = "NOTE_ON"
       /\ interpreted[p].note_id = LastInterpreted.note_id
       /\ interpreted[p].index < LastInterpreted.index

\* the step leaves voice j untouched
SameVoice(j) == voices'[j] = voices[j]

\* C11: under ALLOW_TAILS a NOTE_ON whose note id a running voice carries, with
\* a free voice in the pool, starts the free voice of lowest index and leaves
\* every running voice of that note id as it was.
C11_AllowTailsNoMatch ==
  [][(NoteOnStep /\ retrigger_mode = "ALLOW_TAILS"
        /\ GetRetriggerVoice(voices, EventNoteId) # 0
        /\ GetFreeVoices(voices) # {}) =>
       /\ voice' \in GetFreeVoices(voices)
       /\ voices'[voice'].running
       /\ voices'[voice'].note_id = EventNoteId
       /\ voices'[voice'].n = 0
       /\ \A j \in Running(voices) :
            /\ voices'[j].stage = voices[j].stage
            /\ voices'[j].n = voices[j].n
            /\ voices'[j].note_id = voices[j].note_id
            /\ SameVoice(j)]_vars

\* under ALLOW_TAILS two voices run the same note id, the second one just started
C11_Witness ==
  /\ retrigger_mode = "ALLOW_TAILS"
  /\ pc \in {"bins", "events"}
  /\ Len(interpreted) >= 2
  /\ LastInterpreted.kind = "NOTE_ON"
  /\ voice = 2
  /\ voices[1].running /\ voices[2].running
  /\ voices[1].note_id = voices[2].note_id
  /\ voices[1].n > 0 /\ voices[2].n = 0

EventData == Head(bin_events).data

\* C12: under CUT_TAILS a NOTE_ON whose note id a running voice carries restarts
\* that voice: generator state from the event, generator counter 0, envelope
\* reset to value 0 and put in ATTACK from 0; every other voice is untouched.
C12_CutTailsHardReset ==
  [][(NoteOnStep /\ retrigger_mode = "CUT_TAILS"
        /\ GetRetriggerVoice(voices, EventNoteId) # 0) =>
       LET k == GetRetriggerVoice(voices, EventNoteId)
       IN /\ voice' = k
          /\ voices'[k].running
          /\ voices'[k].note_id = EventNoteId
          /\ voices'[k].state = EventData
          /\ voices'[k].n = 0
          /\ voices'[k].last_on = bin_index
          /\ is_using_adsr =>
               /\ voices'[k].stage = "ATTACK"
               /\ voices'[k].value = ZeroValue
               /\ voices'[k].start = ZeroValue
               /\ voices'[k].target = "ONE"
               /\ voices'[k].i = 0
               /\ voices'[k].seg = adsr_lengths[1]
          /\ OthersUnchanged(k)]_vars

\* with an envelope, a voice in release is restarted by a NOTE_ON of its note
\* id that carries other data than its first NOTE_ON, while the other voice runs
C12_Witness ==
  /\ retrigger_mode = "CUT_TAILS" /\ is_using_adsr
  /\ pc \in {"bins", "events"}
  /\ Len(interpreted) = 4
  /\ interpreted[1].kind = "NOTE_ON" /\ interpreted[2].kind = "NOTE_ON"
  /\ interpreted[3].kind = "NOTE_OFF" /\ interpreted[4].kind = "NOTE_ON"
  /\ \A p \in {3, 4} : interpreted[p].note_id = interpreted[1].note_id
  /\ interpreted[2].note_id # interpreted[1].note_id
  /\ interpreted[4].data # interpreted[1].data
  /\ interpreted[1].index < interpreted[4].index
  /\ voice = 1
  /\ voices[1].state = interpreted[4].data
  /\ voices[1].n = 0 /\ voices[1].stage = "ATTACK" /\ voices[1].value = ZeroValue
  /\ voices[2].running /\ voices[2].n > 0
  /\ voices[2].note_id = interpreted[2].note_id

\* a NOTE_ON step under ATTACK_FROM_CURRENT_LEVEL with an envelope whose note id
\* a running voice carries
SoftRetriggerStep ==
  /\ NoteOnStep
  /\ retrigger_mode = "ATTACK_FROM_CURRENT_LEVEL"
  /\ is_using_adsr
  /\ GetRetriggerVoice(voices, EventNoteId) # 0

\* C13: under ATTACK_FROM_CURRENT_LEVEL with an envelope a NOTE_ON whose note id
\* a running voice carries, in whatever stage, leaves the envelope value and the
\* generator counter of that voice as they were and starts an attack from the
\* current value; the voice takes the data and the index of the event, and no
\* other voice changes.
C13_SoftRetrigger ==
  [][SoftRetriggerStep =>
       LET k == GetRetriggerVoice(voices, EventNoteId)
       IN /\ voice' = k
          /\ voices'[k].value = voices[k].value
          /\ voices'[k].n = voices[k].n
          /\ voices'[k].stage = "ATTACK"
          /\ voices'[k].start = voices[k].value
          /\ voices'[k].target = "ONE"
          /\ voices'[k].i = 0
          /\ voices'[k].seg = adsr_lengths[1]
          /\ voices'[k].running
          /\ voices'[k].note_id = EventNoteId
          /\ voices'[k].state = EventData
          /\ voices'[k].last_on = bin_index
          /\ OthersUnchanged(k)]_vars

\* a releasing voice with a nonzero envelope value and a generator that has
\* run was retriggered by a NOTE_ON of its note id carrying other data
C13_Witness ==
  /\ retrigger_mode = "ATTACK_FROM_CURRENT_LEVEL" /\ is_using_adsr
  /\ pc \in {"bins", "events"}
  /\ Len(interpreted) >= 3
  /\ LastInterpreted.kind = "NOTE_ON"
  /\ interpreted[Len(interpreted) - 1].kind = "NOTE_OFF"
  /\ interpreted[Len(interpreted) - 1].note_id = LastInterpreted.note_id
  /\ interpreted[1].kind = "NOTE_ON"
  /\ interpreted[1].note_id = LastInterpreted.note_id
  /\ interpreted[1].data # LastInterpreted.data
  /\ voice = 1
  /\ voices[1].stage = "ATTACK" /\ voices[1].i = 0
  /\ voices[1].value # ZeroValue /\ voices[1].start = voices[1].value
  /\ voices[1].n > 0
  /\ voices[1].state = LastInterpreted.data

\* C14: a NOTE_ON step of a scheduler built with ATTACK_FROM_CURRENT_LEVEL and
\* no envelope selects the voice and produces the voice states that a
\* CUT_TAILS scheduler produces from the same voices and the same event.
\* (No other step of render reads the retrigger mode, so the two schedulers
\* stay in step over a whole timeline.)
C14_SameAsCutTails ==
  [][(NoteOnStep /\ retrigger_mode = "ATTACK_FROM_CURRENT_LEVEL" /\ ~is_using_adsr) =>
       LET sel == RetriggerIn("CUT_TAILS", voices, EventNoteId)
           k == VoiceFor(sel, voices)
       IN /\ voice' = k
          /\ voices' = StartVoice(k, SoftIn("CUT_TAILS", sel), voices,
                                  EventNoteId, EventData, bin_index)]_vars

\* without an envelope, a running voice whose generator has run was restarted
\* by a NOTE_ON of its note id under ATTACK_FROM_CURRENT_LEVEL
C14_Witness ==
  /\ retrigger_mode = "ATTACK_FROM_CURRENT_LEVEL" /\ ~is_using_adsr
  /\ pc \in {"bins", "events"}
  /\ Len(interpreted) = 2
  /\ interpreted[1].kind = "NOTE_ON" /\ interpreted[2].kind = "NOTE_ON"
  /\ interpreted[1].note_id = interpreted[2].note_id
  /\ interpreted[1].index < interpreted[2].index
  /\ voice = 1
  /\ voices[1].running /\ voices[1].n = 0
  /\ voices[1].last_on = interpreted[2].index
  /\ ~voices[2].running /\ voices[2].last_on = voices[2].last_off

\* no running voice carries the note id of the event being interpreted
NoRunningVoiceOfEvent ==
  \A k \in 1..Len(voices) : ~(voices[k].running /\ voices[k].note_id = EventNoteId)

\* C15: a NOTE_OFF whose note id no running voice carries changes no voice and
\* raises no error; render goes on with the next event or the next bin.
C15_StrayNoteOff ==
  [][(pc = "events" /\ Head(bin_events).kind = "NOTE_OFF"
        /\ interpreted' # interpreted /\ NoRunningVoiceOfEvent) =>
       /\ voices' = voices
       /\ voice' = 0
       /\ pc' \in {"bins", "events"}
       /\ bin_events' = Tail(bin_events)
       /\ block_frames' = block_frames]_vars

\* a NOTE_OFF of a note id that no voice carried was interpreted while a voice
\* of another note id was running, and that voice still runs
C15_Witness ==
  /\ pc \in {"bins", "events"}
  /\ Len(interpreted) >= 2
  /\ LastInterpreted.kind = "NOTE_OFF"
  /\ voice = 0
  /\ \E k \in 1..Len(voices) :
       /\ voices[k].running /\ voices[k].n > 0
       /\ voices[k].note_id # LastInterpreted.note_id
       /\ voices[k].last_off = 0

\* a step that interprets a NOTE_OFF event and finds a running voice for it
NoteOffStep ==
  /\ pc = "events"
  /\ Head(bin_events).kind = "NOTE_OFF"
  /\ interpreted' # interpreted
  /\ voice' # 0

\* C16: a NOTE_OFF that finds its voice sets the voice's last_off to the index
\* of the bin. Without an envelope the voice stops at once: it has produced no
\* frame at or after that index and, while idle, produces none. With an
\* envelope the voice enters RELEASE and keeps running; a voice with an
\* envelope stops only in a step that takes its envelope to IDLE.
C16_NoteOff ==
  [][/\ NoteOffStep =>
          /\ voices[voice'].running /\ voices[voice'].note_id = EventNoteId
          /\ voices'[voice'].last_off = bin_index
          /\ ~is_using_adsr =>
               /\ ~voices'[voice'].running
               /\ OutputIndex <= bin_index \/ voices[voice'].n = 0
          /\ is_using_adsr =>
               /\ voices'[voice'].running
               /\ voices'[voice'].stage = "RELEASE"
               /\ voices'[voice'].start = voices[voice'].value
     /\ \A k \in 1..Len(voices) :
          /\ (~voices[k].running /\ ~voices'[k].running) => voices'[k].n = voices[k].n
          /\ (is_using_adsr /\ voices[k].running /\ ~voices'[k].running) =>
               /\ voices[k].stage = "RELEASE"
               /\ voices'[k].stage = "IDLE"
          /\ (is_using_adsr /\ voices[k].running) => voices[k].stage # "IDLE"]_vars

\* without an envelope a voice that had produced frames was stopped by its
\* NOTE_OFF and later frames were rendered without it
C16_Witness ==
  /\ ~is_using_adsr
  /\ Len(interpreted) >= 2
  /\ LastInterpreted.kind = "NOTE_OFF"
  /\ voice = 1
  /\ ~voices[1].running
  /\ voices[1].last_off = LastInterpreted.index
  /\ voices[1].last_off > voices[1].last_on
  /\ voices[1].n > 0
  /\ voices[1].n <= voices[1].last_off
  /\ OutputIndex > voices[1].last_off
  /\ pc = "yield"

\* the events recorded for a note id in the bin at an index
EventsOf(index, note_id) ==
  LET bin == event_bins[index]
      at == CHOOSE k \in 1..Len(bin) : bin[k].note_id = note_id
  IN bin[at].events

\* C17: add_event puts a NOTE_ON at the greatest multiple of tick_size that is
\* not after time * sample_rate, a NOTE_OFF at the least multiple that is not
\* before it, and appends the event to that bin; every bin key is a multiple of
\* tick_size. (call.time2 is time * sample_rate in units of 1/TimeDen sample.)
C17_Quantization ==
  /\ \A x \in DOMAIN event_bins : x % tick_size = 0
  /\ call.op = "add_event" =>
       /\ call.index % tick_size = 0
       /\ call.kind = "NOTE_ON" =>
            /\ call.index * TimeDen <= call.time2
            /\ call.time2 < (call.index + tick_size) * TimeDen
       /\ call.kind = "NOTE_OFF" =>
            /\ (call.index - tick_size) * TimeDen < call.time2
            /\ call.time2 <= call.index * TimeDen
       /\ call.index \in DOMAIN event_bins
       /\ BinHas(event_bins[call.index], call.note_id)
       /\ LET events == EventsOf(call.index, call.note_id)
          IN events[Len(events)] = [kind |-> call.kind, data |-> call.data]

\* with tick_size 2, a NOTE_OFF at half a sample went to the bin at index 2,
\* after an earlier call had filled the bin at index 0
C17_Witness ==
  /\ tick_size = 2
  /\ call.op = "add_event" /\ call.kind = "NOTE_OFF"
  /\ call.time2 * 2 = TimeDen
  /\ call.index = 2
  /\ 0 \in DOMAIN event_bins
  /\ HasKind(EventsOf(2, call.note_id), "NOTE_OFF")

\* e is the first event of the kind in the list, in recording order
IsFirstOfKind(e, events, kind) ==
  \E p \in 1..Len(events) :
    /\ events[p] = e
    /\ e.kind = kind
    /\ \A q \in 1..(p - 1) : events[q].kind # kind

\* simple holds, for the note ids of bin in the same order, the first NOTE_OFF
\* recorded (if any) followed by the first NOTE_ON recorded (if any), nothing else
SimplifiedAsClaimed(bin, simple) ==
  /\ Len(simple) = Len(bin)
  /\ \A k \in 1..Len(bin) :
       LET recorded == bin[k].events
           kept == simple[k].events
           offs == {p \in 1..Len(kept) : kept[p].kind = "NOTE_OFF"}
           ons == {p \in 1..Len(kept) : kept[p].kind = "NOTE_ON"}
       IN /\ simple[k].note_id = bin[k].note_id
          /\ Cardinality(offs) <= 1 /\ Cardinality(ons) <= 1
          /\ Cardinality(offs) = 1 <=> HasKind(recorded, "NOTE_OFF")
          /\ Cardinality(ons) = 1 <=> HasKind(recorded, "NOTE_ON")
          /\ \A p \in offs : p = 1 /\ IsFirstOfKind(kept[p], recorded, "NOTE_OFF")
          /\ \A p \in ons : p = Len(kept) /\ IsFirstOfKind(kept[p], recorded, "NOTE_ON")

\* the simplified bins render walks, as it builds them at its start
WalkedBins == block_event_bins \o remaining_bins

\* C18: the bins render builds with get_simplified hold, per note id, at most
\* one NOTE_OFF, the first recorded, followed by at most one NOTE_ON, the first
\* recorded, and nothing else; the recorded bins are left as they were.
C18_Simplified ==
  [][(pc = "build" /\ call'.op = "render") =>
       /\ event_bins' = event_bins
       /\ {WalkedBins'[k].index : k \in 1..Len(WalkedBins')} = DOMAIN event_bins
       /\ Len(WalkedBins') = Cardinality(DOMAIN event_bins)
       /\ \A k \in 1..Len(WalkedBins') :
            /\ WalkedBins'[k].bin = GetSimplified(event_bins[WalkedBins'[k].index])
            /\ SimplifiedAsClaimed(event_bins[WalkedBins'[k].index], WalkedBins'[k].bin)]_vars

\* render has simplified a bin where a note id had two NOTE_ONs with different
\* data and then a NOTE_OFF: the NOTE_OFF and the first NOTE_ON are kept
C18_Witness ==
  /\ call.op = "render" /\ pc = "bins"
  /\ block_event_bins # <<>>
  /\ LET b == Head(block_event_bins)
     IN /\ b.index \in DOMAIN event_bins
        /\ \E k \in 1..Len(b.bin) :
             LET recorded == event_bins[b.index][k].events
             IN /\ Len(recorded) = 3
                /\ recorded[1].kind = "NOTE_ON" /\ recorded[2].kind = "NOTE_ON"
                /\ recorded[3].kind = "NOTE_OFF"
                /\ recorded[1].data # recorded[2].data
                /\ b.bin[k].events = <<recorded[3], recorded[1]>>

\* C19: get_simplified applied to a simplified bin returns the same note ids
\* with the same events in the same order, for every recorded bin (the bins
\* change only while the timeline is built) and for every bin render walks.
C19_Idempotent ==
  /\ pc = "build" =>
       \A x \in DOMAIN event_bins :
         GetSimplified(GetSimplified(event_bins[x])) = GetSimplified(event_bins[x])
  /\ pc # "build" =>
       \A k \in 1..Len(WalkedBins) : GetSimplified(WalkedBins[k].bin) = WalkedBins[k].bin

\* render walks a simplified bin that differs from the recorded one: a note id
\* had a NOTE_ON, a NOTE_OFF and another NOTE_ON recorded in that order
C19_Witness ==
  /\ call.op = "render" /\ pc = "bins"
  /\ \E k \in 1..Len(WalkedBins) :
       LET recorded == event_bins[WalkedBins[k].index]
       IN /\ WalkedBins[k].bin # recorded
          /\ \E j \in 1..Len(recorded) :
               /\ Len(recorded[j].events) = 3
               /\ recorded[j].events[1].kind = "NOTE_ON"
               /\ recorded[j].events[2].kind = "NOTE_OFF"
               /\ recorded[j].events[3].kind = "NOTE_ON"
               /\ recorded[j].events[3].data # recorded[j].events[1].data

\* C20: the events render interprets come in ascending bin index; among the
\* events of one bin a note id's NOTE_OFF comes before its NOTE_ON; and the
\* steps that interpret the events of a bin render no frame and advance no
\* generator, so nothing is rendered between two events of the same bin.
C20_InterpretationOrder ==
  /\ [](/\ \A p \in 1..Len(interpreted), q \in 1..Len(interpreted) :
             p < q => interpreted[p].index <= interpreted[q].index
        /\ \A p \in 1..Len(interpreted), q \in 1..Len(interpreted) :
             (/\ p < q
              /\ interpreted[p].index = interpreted[q].index
              /\ interpreted[p].note_id = interpreted[q].note_id) =>
               (interpreted[p].kind = "NOTE_OFF" /\ interpreted[q].kind = "NOTE_ON"))
  /\ [][pc = "events" =>
          /\ block_frames' = block_frames
          /\ total_frames' = total_frames
          /\ bin_index' = bin_index
          /\ \A k \in 1..Len(voices) : voices'[k].n = voices[k].n \/ voices'[k].n = 0
          /\ Len(interpreted') = Len(interpreted) + 1 \/ pc' = "error"]_vars

\* a bin whose note id had its NOTE_ON recorded before its NOTE_OFF was
\* interpreted NOTE_OFF first, and a bin at a later index after it, with
\* frames rendered between the two bins
C20_Witness ==
  /\ Len(interpreted) = 3
  /\ interpreted[1].kind = "NOTE_OFF" /\ interpreted[2].kind = "NOTE_ON"
  /\ interpreted[1].note_id = interpreted[2].note_id
  /\ interpreted[1].index = interpreted[2].index
  /\ interpreted[3].index > interpreted[2].index
  /\ interpreted[1].index \in DOMAIN event_bins
  /\ \E k \in 1..Len(event_bins[interpreted[1].index]) :
       LET recorded == event_bins[interpreted[1].index][k]
       IN /\ recorded.note_id = interpreted[1].note_id
          /\ recorded.events[1].kind = "NOTE_ON"
          /\ HasKind(recorded.events, "NOTE_OFF")
  /\ OutputIndex > 0

\* C21: no scheduler is created with an empty voice pool, so no render fails
\* for want of a voice.
C21_NoEmptyPoolAtRender == ~(max_voices <= 0 /\ pc = "error")

\* C22: a constructor call with buffer_size % tick_size # 0 ends in an error
\* with no voice created, and a scheduler that exists has
\* buffer_size % tick_size = 0 and its max_voices voices.
C22_TickDividesBuffer ==
  /\ pc = "new" => voices = <<>>
  /\ pc = "ctor_error" =>
       /\ voices = <<>>
       /\ tick_size = 0 \/ buffer_size % tick_size # 0
  /\ pc \notin {"new", "ctor_error"} =>
       /\ tick_size # 0
       /\ buffer_size % tick_size = 0
       /\ Len(voices) = max_voices

\* the constructor was called with buffer_size 2 and tick_size 3 and raised
C22_Witness ==
  /\ pc = "ctor_error"
  /\ tick_size > buffer_size
  /\ buffer_size % tick_size # 0
  /\ voices = <<>>

\* no NOTE_OFF was recorded in any bin (no event at all included)
NoNoteOffRecorded ==
  \A x \in DOMAIN event_bins : \A k \in 1..Len(event_bins[x]) :
    ~HasKind(event_bins[x][k].events, "NOTE_OFF")

\* C23: on a timeline without events, or without any NOTE_OFF, render ends
\* at once: no block is yielded, no event is interpreted, no frame is
\* rendered and every voice stays as the constructor left it.
C23_InvalidTrack ==
  NoNoteOffRecorded =>
    /\ pc \in {"build", "done"}
    /\ num_processed_blocks = 0
    /\ total_frames = 0
    /\ block_frames = NoFrames
    /\ interpreted = <<>>
    /\ \A k \in 1..Len(voices) : voices[k] = NewVoice

\* render returned on a timeline of three NOTE_ONs in two bins and no NOTE_OFF
C23_Witness ==
  /\ pc = "done" /\ call.op = "render"
  /\ NoNoteOffRecorded
  /\ num_calls = 3
  /\ Cardinality(DOMAIN event_bins) = 2
  /\ \A k \in 1..Len(voices) : ~voices[k].running

\* a call on the envelope of SpecAdsr
EnvelopeCall == unit'.calls = unit.calls + 1

\* C24: each registered idle handler is called once by a generate call that
\* takes the envelope from RELEASE to IDLE, and by nothing else: not by
\* reset, note_on or note_off, not by generate in any other case.
C24_IdleHandlers ==
  [][EnvelopeCall =>
       LET idle_reached == /\ unit'.op = "generate"
                           /\ unit.env.stage = "RELEASE"
                           /\ unit'.env.stage = "IDLE"
       IN \A h \in 1..Len(unit.env.fired) :
            unit'.env.fired[h] = unit.env.fired[h] + (IF idle_reached THEN 1 ELSE 0)]_vars

\* the envelope reached IDLE from RELEASE twice and both handlers were called
\* twice
C24_Witness ==
  /\ unit.kind = "adsr"
  /\ unit.op = "generate" /\ unit.env.stage = "IDLE"
  /\ unit.env.fired = <<2, 2>>

\* the length of the sub-segment a step renders (0: the step renders nothing)
RenderedLength == IF pc = "bins" THEN block_frames'.len - block_frames.len ELSE 0

\* C25: with an envelope, a voice's generator counter and the number of
\* values its envelope has emitted since the last resetting note-on are equal
\* in every state of a render; a step that renders a sub-segment advances both
\* by the sub-segment length for a running voice and by nothing for an idle one.
C25_Lockstep ==
  /\ [](is_using_adsr => \A k \in 1..Len(voices) : voices[k].g = voices[k].n)
  /\ [][(is_using_adsr /\ RenderedLength > 0) =>
          \A k \in 1..Len(voices) :
            IF voices[k].running
            THEN /\ voices'[k].n = voices[k].n + RenderedLength
                 /\ voices'[k].g = voices[k].g + RenderedLength
            ELSE /\ voices'[k].n = voices[k].n
                 /\ voices'[k].g = voices[k].g]_vars

\* with an envelope, a block was yielded after a voice ran through a soft
\* retrigger without a counter reset while the other voice had stopped inside a
\* sub-segment at the end of its release
C25_Witness ==
  /\ is_using_adsr /\ retrigger_mode = "ATTACK_FROM_CURRENT_LEVEL"
  /\ pc = "yield"
  /\ \E k \in 1..Len(voices), j \in 1..Len(voices) :
       /\ voices[k].running
       /\ voices[k].last_on > 0
       /\ voices[k].n > voices[k].last_on
       /\ voices[k].g = voices[k].n
       /\ ~voices[j].running /\ voices[j].stage = "IDLE"
       /\ voices[j].g = voices[j].n /\ voices[j].n >= 2

\* a step that interprets one event of the current bin
EventStep == pc = "events" /\ Len(interpreted') = Len(interpreted) + 1

\* C26: a step that interprets a NOTE_ON or a NOTE_OFF changes no voice but
\* the one it selects: generator counter, envelope stage and value, running
\* flag, note id, last_on and last_off of every other voice stay as they were.
C26_OnlySelectedVoice ==
  [][EventStep =>
       \A j \in 1..Len(voices) :
         j # voice' =>
           /\ voices'[j].n = voices[j].n
           /\ voices'[j].stage = voices[j].stage
           /\ voices'[j].value = voices[j].value
           /\ voices'[j].running = voices[j].running
           /\ voices'[j].note_id = voices[j].note_id
           /\ voices'[j].last_on = voices[j].last_on
           /\ voices'[j].last_off = voices[j].last_off
           /\ voices'[j] = voices[j]]_vars

\* with an envelope, the second voice was restarted by a NOTE_ON while the
\* first one, past its attack with a nonzero envelope value, kept running
C26_Witness ==
  /\ is_using_adsr
  /\ pc \in {"bins", "events"}
  /\ Len(interpreted) >= 3
  /\ LastInterpreted.kind = "NOTE_ON"
  /\ voice = 2
  /\ voices[2].stage = "ATTACK" /\ voices[2].n = 0
  /\ voices[2].last_on > 0
  /\ voices[1].running /\ voices[1].n > 0
  /\ voices[1].stage \in {"DECAY", "SUSTAIN"}
  /\ voices[1].value # ZeroValue
  /\ voices[1].note_id # voices[2].note_id

\* the samples asked of the callback in the first k calls since the reset
RECURSIVE SamplesBefore(_, _)
SamplesBefore(seen, k) ==
  IF k <= 0 THEN 0 ELSE seen[k].num_samples + SamplesBefore(seen, k - 1)

\* C27: the callback of a CallbackSynth receives, at each process call, the
\* number of samples asked of it since the last reset, and the counter holds
\* that number after the call; reset puts the counter at 0. So process(a) then
\* process(b) after a reset shows the callback the offsets 0 and a and leaves
\* the counter at a + b, where process(a + b) leaves it.
C27_CounterAdditive ==
  /\ [](unit.kind = "synth" =>
          /\ \A k \in 1..Len(unit.seen) :
               unit.seen[k].n = SamplesBefore(unit.seen, k - 1)
          /\ unit.n = SamplesBefore(unit.seen, Len(unit.seen)))
  /\ [][(unit.kind = "synth" /\ unit'.calls = unit.calls + 1) =>
          /\ unit'.op = "reset" => unit'.n = 0
          /\ unit'.op = "process" =>
               /\ unit'.seen[Len(unit'.seen)].n = unit.n
               /\ unit'.n = unit.n + unit'.seen[Len(unit'.seen)].num_samples]_vars

\* after process calls and a reset, process(1) then process(2) showed the
\* callback the offsets 0 and 1 and left the counter at 3
C27_Witness ==
  /\ unit.kind = "synth"
  /\ unit.calls >= 5
  /\ unit.seen = <<[n |-> 0, num_samples |-> 1], [n |-> 1, num_samples |-> 2]>>
  /\ unit.n = 3

\* volume times channel c of frame i of input k, zero past the input's end
Contribution(setup, k, i, c) ==
  IF i <= Len(setup[k][2]) THEN setup[k][1] * setup[k][2][i][c] ELSE 0

\* the contributions of the first k inputs to channel c of frame i
RECURSIVE ContributionSum(_, _, _, _)
ContributionSum(setup, k, i, c) ==
  IF k <= 0 THEN 0
  ELSE ContributionSum(setup, k - 1, i, c) + Contribution(setup, k, i, c)

\* C28: the buffer mix returns for a list of (volume, buffer) pairs is as long
\* as the longest input, empty for the empty list, and each channel of its
\* frame i is the sum over the inputs of volume times that channel of the
\* input's frame i, an input shorter than i counting as zero.
C28_MixIsWeightedSum ==
  (unit.kind = "mix" /\ unit.op = "mix") =>
    /\ \A k \in 1..Len(unit.setup) : Len(unit.result) >= Len(unit.setup[k][2])
    /\ \/ Len(unit.result) = 0
       \/ \E k \in 1..Len(unit.setup) : Len(unit.result) = Len(unit.setup[k][2])
    /\ \A i \in 1..Len(unit.result) : \A c \in 1..2 :
         unit.result[i][c] = ContributionSum(unit.setup, Len(unit.setup), i, c)

\* two inputs of different lengths and non-zero volumes were mixed: the first
\* frame holds both, the second only the longer one
C28_Witness ==
  /\ unit.kind = "mix" /\ unit.op = "mix"
  /\ unit.setup = <<<<2, <<<<1, 0>>>>>>, <<1, <<<<-1, 2>>, <<-1, 2>>>>>>>>
  /\ unit.result = <<<<1, 2>>, <<-1, 2>>>>

\* an _exp_step evaluation at index 0 multiplies by exp(0) = 1 and returns its
\* start; Numeric drops these evaluations from a value
MovesValue(e) == e.i # 0

Numeric(value) == SelectSeq(value, MovesValue)

\* a value is 0.0 when no evaluation since the forced 0.0 moved it toward a
\* target other than 0 (sustain_level > 0)
IsZeroValue(value) ==
  \A k \in 1..Len(value) : value[k].target = "ZERO" \/ value[k].i = 0

SameValue(a, b) ==
  \/ Numeric(a) = Numeric(b)
  \/ IsZeroValue(a) /\ IsZeroValue(b)

\* a generate call that follows a note_on or note_off, the envelope holding
\* the value it last emitted (no reset since)
GenerateAfterEvent ==
  /\ unit.kind = "adsr"
  /\ unit.op \in {"note_on", "note_off"}
  /\ unit.before = <<unit.env.value>>
  /\ unit'.op = "generate"

\* C29 as stated: across any note_on or note_off of the envelope the first
\* value generate emits after the event equals the value emitted just before.
C29_ContinuousAcrossAnyEvent ==
  [][GenerateAfterEvent => SameValue(unit'.out[1], unit.before[1])]_vars

\* C29: across a note_on, or a note_off made outside IDLE, the first value
\* generate emits after the event equals the value emitted just before it: the
\* segment entered starts from the captured value at index 0, or has no
\* samples and leaves the value alone.
C29_ContinuousAcrossEvent ==
  [][(GenerateAfterEvent /\ unit.env.stage # "IDLE") =>
       /\ SameValue(unit'.out[1], unit.before[1])
       /\ \/ unit'.out[1] = unit.before[1]
          \/ unit'.out[1] = Append(unit.before[1],
               [target |-> unit.env.target, i |-> 0, n |-> unit.env.seg])]_vars

\* a note_off arrived while the envelope was above zero in its sustain, and
\* the release that followed started from that value
C29_Witness ==
  /\ unit.kind = "adsr"
  /\ unit.op = "generate"
  /\ unit.before # <<>> /\ ~IsZeroValue(unit.before[1])
  /\ unit.out[1] = Append(unit.before[1], [target |-> "ZERO", i |-> 0, n |-> adsr_lengths[3]])

\* the stage changes one iteration of generate may make
StageAdvance == {<<"ATTACK", "DECAY">>, <<"DECAY", "SUSTAIN">>, <<"RELEASE", "IDLE">>}

\* C30: note_on puts the envelope in ATTACK from any stage; note_off puts it
\* in RELEASE from any stage but IDLE, where it changes nothing; reset puts it
\* in IDLE; each sample of generate keeps the stage or moves ATTACK to DECAY,
\* DECAY to SUSTAIN or RELEASE to IDLE, so that no generate call leaves
\* SUSTAIN or IDLE.
C30_StageTransitions ==
  [][(unit.kind = "adsr" /\ EnvelopeCall) =>
       /\ unit'.op = "note_on" => unit'.env.stage = "ATTACK"
       /\ unit'.op = "note_off" =>
            IF unit.env.stage = "IDLE" THEN unit'.env = unit.env
            ELSE unit'.env.stage = "RELEASE"
       /\ unit'.op = "reset" => unit'.env.stage = "IDLE"
       /\ unit'.op = "generate" =>
            /\ \A k \in 1..Len(unit'.out) :
                 LET from == Generate(unit.env, k - 1).stage
                     to == Generate(unit.env, k).stage
                 IN to = from \/ <<from, to>> \in StageAdvance
            /\ unit'.env.stage = Generate(unit.env, Len(unit'.out)).stage
            /\ unit.env.stage \in {"SUSTAIN", "IDLE"} =>
                 unit'.env.stage = unit.env.stage]_vars

\* a note_off arrived in IDLE after a release had run to its end, every kind
\* of call having been made
C30_Witness ==
  /\ unit.kind = "adsr"
  /\ unit.op = "note_off"
  /\ unit.env.stage = "IDLE"
  /\ unit.env.fired[1] = 1
  /\ unit.env.value # ZeroValue

\* the values the envelope has emitted since the last call other than generate
SinceEvent == unit.env.g - unit.mark

\* C31: after a note_on on an envelope with attack and decay lengths Na > 0
\* and Nd > 0, and no note_on, note_off or reset since, the stage is ATTACK
\* while fewer than Na samples have been generated, DECAY while fewer than
\* Na + Nd have, and SUSTAIN from then on, whatever the generate calls were.
C31_StageBySampleCount ==
  (/\ unit.kind = "adsr"
   /\ unit.event = "note_on"
   /\ adsr_lengths[1] > 0 /\ adsr_lengths[2] > 0) =>
    unit.env.stage =
      IF SinceEvent < adsr_lengths[1] THEN "ATTACK"
      ELSE IF SinceEvent < adsr_lengths[1] + adsr_lengths[2] THEN "DECAY"
      ELSE "SUSTAIN"

\* attack and decay of two samples each: a generate call of two samples took
\* the envelope from the third sample, in DECAY, to the fifth, in SUSTAIN
C31_Witness ==
  /\ unit.kind = "adsr"
  /\ unit.event = "note_on" /\ unit.op = "generate"
  /\ adsr_lengths = <<2, 2, 1>>
  /\ SinceEvent = 5 /\ Len(unit.out) = 2
  /\ unit.env.stage = "SUSTAIN"

\* the stage that follows a segment
StageAfter(stage) ==
  CASE stage = "ATTACK" -> "DECAY"
    [] stage = "DECAY" -> "SUSTAIN"
    [] stage = "RELEASE" -> "IDLE"

\* C32: an ATTACK, DECAY or RELEASE segment of zero samples ends with the
\* first sample generated after it was entered: that sample takes the
\* envelope to the following stage and emits the value the envelope had.
C32_ZeroLengthSegment ==
  [][(unit.kind = "adsr" /\ EnvelopeCall /\ unit'.op = "generate") =>
       \A k \in 1..Len(unit'.out) :
         LET entered == Generate(unit.env, k - 1)
             after == Generate(unit.env, k)
         IN (entered.stage \in {"ATTACK", "DECAY", "RELEASE"} /\ entered.seg = 0) =>
              /\ after.stage = StageAfter(entered.stage)
              /\ after.value = entered.value
              /\ unit'.out[k] = entered.value]_vars

\* attack of two samples and no decay: the third sample after the note_on went
\* through the empty DECAY to SUSTAIN with the value the attack had reached
C32_Witness ==
  /\ unit.kind = "adsr"
  /\ unit.event = "note_on" /\ unit.op = "generate"
  /\ adsr_lengths = <<2, 0, 1>>
  /\ SinceEvent = 3
  /\ unit.env.stage = "SUSTAIN"
  /\ unit.env.value = <<[target |-> "ONE", i |-> 1, n |-> 2]>>

\* the blocks a render may yield
BlockBound ==
  Max(1, Ceil(Max(last_event_sample_index,
                  last_note_off_sample_index + max_samples_after_last_note_off),
              buffer_size))

\* more than the steps one block can take: each recorded event is interpreted
\* at most once and its bin entered at most once
BlockRank == 4 + 4 * num_calls

\* the steps that enter and interpret the bins
RECURSIVE BinsRank(_)
BinsRank(bins) ==
  IF bins = <<>> THEN 0
  ELSE 1 + Len(BinEventList(Head(bins).bin)) + BinsRank(Tail(bins))

\* a bound on the steps a render has left
RenderRank ==
  CASE pc = "bins" ->
         (BlockBound - num_processed_blocks) * BlockRank + 2 + BinsRank(block_event_bins)
    [] pc = "events" ->
         (BlockBound - num_processed_blocks) * BlockRank + 2 + BinsRank(block_event_bins)
           + Len(bin_events)
    [] pc = "yield" -> (BlockBound - num_processed_blocks) * BlockRank + BlockRank
    [] OTHER -> 0

\* C33: a render that has entered its block loop (the timeline has a
\* NOTE_OFF) ends after finitely many blocks, also when a voice is running
\* for ever: it yields at most
\* max(1, ceil(max(last event, last NOTE_OFF + max tail) / block size))
\* blocks, it always has a next step until it has ended, and every step
\* lowers a natural number.
C33_RenderEnds ==
  /\ [](num_processed_blocks <= BlockBound)
  /\ [](pc \in {"bins", "events", "yield"} => (RenderRank > 0 /\ ENABLED RenderStep))
  /\ [][RenderStep => (RenderRank' >= 0 /\ RenderRank' < RenderRank)]_vars

\* the render ended with a loud block and a voice that is still running: only
\* the max tail stopped it
C33_Witness ==
  /\ pc = "done"
  /\ num_processed_blocks >= 2
  /\ Running(voices) # {}
  /\ block_frames.loud
  /\ remaining_bins = <<>>

\* C34: with an envelope, at every event and segment boundary of a render a
\* voice is running if and only if its envelope is not in IDLE.
C34_RunningIffNotIdle ==
  is_using_adsr =>
    \A k \in 1..Len(voices) : voices[k].running <=> voices[k].stage # "IDLE"

\* one voice has played a note to the end of its release and stopped, while
\* another is still running
C34_Witness ==
  /\ is_using_adsr
  /\ \E k, j \in 1..Len(voices) :
       /\ ~voices[k].running /\ voices[k].note_id # 0 /\ voices[k].stage = "IDLE"
       /\ voices[j].running /\ voices[j].stage # "IDLE"

\* every bin of the timeline has been interpreted
LastBinInterpreted ==
  /\ pc \in {"bins", "yield", "done"}
  /\ interpreted # <<>>
  /\ remaining_bins = <<>> /\ block_event_bins = <<>>

\* a running voice whose envelope waits for a NOTE_OFF
HeldVoice == \E k \in 1..Len(voices) :
  voices[k].running /\ voices[k].stage \in {"ATTACK", "DECAY", "SUSTAIN"}

\* no more notes than voices: no NOTE_ON finds every voice running
NoVoiceStolen == num_calls <= max_voices

\* no two NOTE_ONs of the timeline have the same note id
DistinctNoteIds ==
  \A i, j \in 1..Len(interpreted) :
    (i < j /\ interpreted[i].kind = "NOTE_ON" /\ interpreted[j].kind = "NOTE_ON")
      => interpreted[i].note_id # interpreted[j].note_id

\* C35 as stated: with an envelope, in every retrigger mode, a timeline of
\* add_note calls that steals no voice leaves no running voice in ATTACK,
\* DECAY or SUSTAIN once its last bin has been interpreted.
C35_NoVoiceHeld ==
  (is_using_adsr /\ NoVoiceStolen /\ LastBinInterpreted) => ~HeldVoice

\* C35: with an envelope, a timeline of add_note calls that steals no voice
\* leaves no running voice in ATTACK, DECAY or SUSTAIN once its last bin has
\* been interpreted, under CUT_TAILS and ATTACK_FROM_CURRENT_LEVEL, and under
\* ALLOW_TAILS when the notes have different note ids.
C35_NoVoiceHeldUnlessTails ==
  (/\ is_using_adsr /\ NoVoiceStolen /\ LastBinInterpreted
   /\ (retrigger_mode # "ALLOW_TAILS" \/ DistinctNoteIds)) => ~HeldVoice

\* two notes of one note id, the second starting where the first ends, under
\* CUT_TAILS: both NOTE_OFFs reached the one voice, which is in its release
C35_Witness ==
  /\ is_using_adsr /\ retrigger_mode = "CUT_TAILS"
  /\ num_calls = 2 /\ LastBinInterpreted
  /\ Len(interpreted) = 4
  /\ \A e \in 1..4 : interpreted[e].note_id = 1
  /\ voices[1].running /\ voices[1].stage = "RELEASE"
  /\ ~voices[2].running

\* C36: under CUT_TAILS and under ATTACK_FROM_CURRENT_LEVEL no two running
\* voices have the same current note id, at any point of a render.
C36_OneRunningVoicePerNote ==
  retrigger_mode # "ALLOW_TAILS" =>
    \A j, k \in 1..Len(voices) :
      (j # k /\ voices[j].running /\ voices[k].running)
        => voices[j].note_id # voices[k].note_id

\* a second NOTE_ON of a note id arrived while a voice was running with that
\* id and another voice was free; one voice runs with the id, the other with
\* another id
C36_Witness ==
  /\ retrigger_mode # "ALLOW_TAILS"
  /\ Len(interpreted) >= 3
  /\ \E i, j \in 1..Len(interpreted) :
       /\ i < j
       /\ interpreted[i].kind = "NOTE_ON" /\ interpreted[j].kind = "NOTE_ON"
       /\ interpreted[i].note_id = 1 /\ interpreted[j].note_id = 1
       /\ \A e \in i..j : interpreted[e].kind = "NOTE_ON"
  /\ voices[1].running /\ voices[2].running
  /\ interpreted[Len(interpreted)].note_id = 2

\* the samples render has produced
RenderedSamples ==
  CASE pc \in {"bins", "events"} -> cursor + block_frames.len
    [] pc \in {"yield", "done"} -> total_frames
    [] OTHER -> 0

\* max(N, 1) for the release length N
ReleaseSamples == Max(adsr_lengths[3], 1)

\* C37: a running voice with an envelope that was given a NOTE_OFF, and no
\* event since, is running in RELEASE while fewer than max(N, 1) samples have
\* been rendered since the NOTE_OFF, N being the release length, and is
\* stopped, in IDLE and among the free voices once max(N, 1) have.
C37_StopsAfterRelease ==
  is_using_adsr =>
    \A k \in 1..Len(voices) :
      LET since == RenderedSamples - voices[k].last_off
      IN /\ voices[k].stage = "RELEASE" =>
              /\ voices[k].running
              /\ since < ReleaseSamples
              /\ adsr_lengths[3] > 0 => voices[k].i = since
         /\ (voices[k].stage = "IDLE" /\ voices[k].note_id # 0) =>
              /\ ~voices[k].running
              /\ since >= ReleaseSamples
              /\ k \in GetFreeVoices(voices)

\* a voice with a release of two samples stopped in the middle of a segment:
\* three samples were rendered after its NOTE_OFF before the next boundary
C37_Witness ==
  /\ is_using_adsr /\ adsr_lengths[3] = 2
  /\ \E k \in 1..Len(voices) :
       /\ voices[k].stage = "IDLE" /\ voices[k].note_id # 0
       /\ RenderedSamples - voices[k].last_off = 3

\* the bin of a call
CallBin(c) == QuantizedSampleIndex(c.kind, c.time2)

\* the place of call i in the second order
PlaceIn(perm, i) == CHOOSE k \in 1..Len(perm) : perm[k] = i

\* the second order keeps the order of the calls of each bin
SameOrderInEachBin ==
  \A i, j \in 1..Len(unit.calls) :
    (i < j /\ CallBin(unit.calls[i]) = CallBin(unit.calls[j]))
      => PlaceIn(unit.perm, i) < PlaceIn(unit.perm, j)

Sounding(v) ==
  IF v.running
  THEN [v EXCEPT !.last_off = IF v.stage = "RELEASE" THEN @ ELSE 0]
  ELSE [NewVoice EXCEPT !.running = FALSE]

\* the second render has just interpreted the bin at bin_index
AfterBinAgain ==
  /\ unit.kind = "again"
  /\ pc = "bins"
  /\ interpreted # <<>>
  /\ interpreted[Len(interpreted)].index = bin_index
  /\ bin_index >= cursor

\* the voices after the bin at index in a render on new voices
FreshAfter(index) ==
  unit.fresh[CHOOSE k \in 1..Len(unit.fresh) : unit.fresh[k].index = index].voices

SameAsFresh ==
  \A k \in 1..max_voices : Sounding(voices[k]) = Sounding(FreshAfter(bin_index)[k])

\* C39 as stated: a second render on the same scheduler does what the first
\* did, whatever the first left: after every bin each voice sounds as in a
\* render on new voices, and it ends having interpreted the same events
C39_RenderAgainSame ==
  /\ AfterBinAgain => SameAsFresh
  /\ (unit.kind = "again" /\ pc = "done") => interpreted = unit.interpreted

\* C39: when the first render ended with every voice stopped, the second
\* render leaves every voice after every bin sounding as in a render on new
\* voices and ends having interpreted the same events
C39_RenderAgainAfterAllStopped ==
  (unit.kind = "again" /\ Running(unit.voices) = {}) =>
     /\ AfterBinAgain => SameAsFresh
     /\ pc = "done" => interpreted = unit.interpreted

\* a second render is over; the first had left every voice stopped, one of
\* them after playing a note, and the second interpreted a NOTE_ON and NOTE_OFF
C39_Witness ==
  /\ unit.kind = "again" /\ pc = "done"
  /\ Running(unit.voices) = {}
  /\ \E k \in 1..max_voices : unit.voices[k].note_id # 0 /\ unit.voices[k].n > 0
  /\ Len(interpreted) >= 2
  /\ num_processed_blocks >= 1

\* time and time + duration of the latest add_note call, in samples
NoteTime == call.time2 \div TimeDen

NoteEnd == FloatAdd(NoteTime, call.duration2 \div TimeDen)

====
